---- MODULE Spec2Model ----
(***************************************************************************)
(* A model of pocketsearch (src/src/pocketsearch/__init__.py):             *)
(*   - ConnectionPool, PocketSearch open/close/optimize and the            *)
(*     PocketWriter / PocketReader scopes, as threads interleaving at the  *)
(*     granularity of the interpreter's thread switches;                   *)
(*   - Unicode61 (is_tokenchar, tokenize) and MatchFilter._escape on       *)
(*     character sequences;                                                *)
(*   - Query / SQLQuery: union composition, order_by, values, highlight,   *)
(*     count, slicing and execution;                                       *)
(*   - PocketSearch.get_arguments with search and the writing methods;     *)
(*   - SQLQuery.where and the rendering of its filters and parameters;     *)
(*   - the composition of Q objects, atomically and loop pass by pass.     *)
(***************************************************************************)
EXTENDS Integers, Sequences, FiniteSets, TLC

(***************************************************************************)
(* Bounds of the model.                                                    *)
(***************************************************************************)
\* largest value a writer semaphore is followed to
MaxSemValue == 2
\* rows an index holds at most
MaxDocs == 2
\* pieces a lookup value is put together from
MaxValuePieces == 3
\* length of Query.unions
MaxUnions == 2
\* length of SQLQuery.v_order_by once the default order is replaced
MaxOrderBy == 2
\* length of SQLQuery.v_select once the default projection is replaced
MaxValues == 2
\* documents a lookup matches at most
MaxHits == 3
\* Q objects a behaviour creates
MaxQs == 2
\* length of Q.q_exprs
MaxQExprs == 3

Threads == {"t1", "t2"}
Names == {"db1"}

(***************************************************************************)
(* Program constants.                                                      *)
(***************************************************************************)
POOL_MAX_DATABASES == 150
DICT_LOCK_PERMITS == 10

NoSlot == 0
NoThread == "none"
DocIds == 1..MaxDocs
EmptyTable == [d \in DocIds |-> 0]
NoScope == [exit |-> "none", released |-> FALSE, published |-> FALSE,
            lost |-> FALSE]
NoResult == [err |-> "none", name |-> "none"]

\* The pool may already track index names other than the ones of Names
\* (all of them idle): their number is part of len(self.connections).
\* The code reaches each of these numbers by registering one name after
\* the other.
OtherCounts == {0, POOL_MAX_DATABASES, POOL_MAX_DATABASES + 1}

VARIABLES
    connections,  \* ConnectionPool.connections: name -> semaphore id, NoSlot when absent
    sems,         \* value of every threading.Semaphore(1) created for a slot
    others,       \* number of further registered (idle) names
    dict_lock,    \* free permits of ConnectionPool.dict_lock
    db,           \* committed content of the index of each name
    initialized,  \* the tables of the index exist (a _create_table committed)
    dbLock,       \* thread whose connection holds the engine's write lock
    pc,           \* position of each thread
    kind,         \* "plain" | "scope" | "reader" instance of the thread
    name,         \* db_name of the thread's instance
    ret,          \* caller of get_connection: "init" | "optimize"
    waitSem,      \* semaphore object the thread's acquire() works on
    conn,         \* self.connection of the instance is set, and that connection is open
    txn,          \* a transaction is active on the instance's connection
    view,         \* content as seen by the instance's open write transaction
    closed,       \* close() has been called on the instance
    result,       \* last exception seen by the thread's caller
    instHolds,    \* the instance's connection is an unreleased writer connection
    held,         \* per name: writer connections obtained and not yet released
    scope,        \* record of the thread's PocketWriter scope
    value,        \* the value of a full-text lookup, a sequence of characters
    lookup,       \* Lookup.names of that lookup: the modifiers requested
    operand,      \* MatchFilter.to_sql() of the lookup, << >> before it is rendered
    unicode61,    \* the arguments a Unicode61 object was made with
    tokenized,    \* what tokenize of that object last returned, NotTokenized before
    queries,      \* the Query objects created so far; a Query is named by its index
    stmt,         \* the statement last handed to execute_sql by Query._query
    raised,       \* the exception raised by the last call on a Query
    hits,         \* per Query: number of documents its lookup matches
    returned,     \* what the last executing call on a Query returned
    qexprs,       \* the QExpr objects created so far: the operator of each
    qs,           \* the Q objects created so far: q_exprs of each, by reference
    loop,         \* the for loop of the running Q.__or__ / Q.__and__, NoLoop outside one
    filters,      \* the filters of the Query the last search call built
    message       \* the message of the FieldError of the last search / insert / update call

poolVars == <<connections, sems, others, dict_lock>>
dbVars == <<db, initialized, dbLock>>
threadVars == <<pc, kind, name, ret, waitSem, conn, txn, view, closed, result, instHolds, held, scope>>
indexVars == <<poolVars, dbVars, threadVars>>
escapeVars == <<value, lookup, operand, unicode61, tokenized>>
queryVars == <<queries, stmt, raised>>
dataVars == <<hits, returned>>
composeVars == <<qexprs, qs, loop>>
callVars == <<filters, message>>
builderVars == <<escapeVars, queryVars, dataVars, composeVars, callVars>>
vars == <<indexVars, builderVars>>

(***************************************************************************)
(* ConnectionPool                                                          *)
(***************************************************************************)
\* len(self.connections)
PoolLen == others + Cardinality({n \in Names : connections[n] # NoSlot})

\* if len(self.connections) > self.POOL_MAX_DATABASES: raise
PoolFull(len) == len > POOL_MAX_DATABASES

\* self.writeable of an instance; get_connection / release_connection
\* touch the writer token only "if writeable:"
WriteableAlways(k) == TRUE
Writeable(k) == k # "reader"

\* Semaphore.acquire(timeout=POOL_CONNECTION_TIMEOUT) gives up (returns
\* False) only when the semaphore stayed unavailable
AcquireNeverTimesOut(v) == FALSE
AcquireTimesOut(v) == v = 0

\* threading.Semaphore.release() on the semaphore currently stored for n
SemRelease(n) == [sems EXCEPT ![connections[n]] = @ + 1]

\* connection.commit() / "commit": publishes the open write transaction
Committed(t) == IF dbLock[name[t]] = t THEN [db EXCEPT ![name[t]] = view[t]] ELSE db
Unlocked(t) == IF dbLock[name[t]] = t THEN [dbLock EXCEPT ![name[t]] = NoThread] ELSE dbLock

PoolInit ==
    /\ connections = [n \in Names |-> NoSlot]
    /\ sems = << >>
    /\ others \in OtherCounts
    /\ dict_lock = DICT_LOCK_PERMITS
    /\ db = [n \in Names |-> EmptyTable]
    /\ initialized = [n \in Names |-> FALSE]
    /\ dbLock = [n \in Names |-> NoThread]
    /\ pc = [t \in Threads |-> "idle"]
    /\ kind = [t \in Threads |-> "plain"]
    /\ name = [t \in Threads |-> "db1"]
    /\ ret = [t \in Threads |-> "init"]
    /\ waitSem = [t \in Threads |-> NoSlot]
    /\ conn = [t \in Threads |-> FALSE]
    /\ txn = [t \in Threads |-> FALSE]
    /\ view = [t \in Threads |-> EmptyTable]
    /\ closed = [t \in Threads |-> FALSE]
    /\ result = [t \in Threads |-> NoResult]
    /\ instHolds = [t \in Threads |-> FALSE]
    /\ held = [n \in Names |-> 0]
    /\ scope = [t \in Threads |-> NoScope]

\* PocketSearch.__init__: a new instance; a read-only one gets its
\* connection from get_connection at once, a writeable one enters the
\* writer path of get_connection
NewInstance(t, n, k) ==
    /\ pc[t] = "idle"
    /\ kind' = [kind EXCEPT ![t] = k]
    /\ name' = [name EXCEPT ![t] = n]
    /\ ret' = [ret EXCEPT ![t] = "init"]
    /\ result' = [result EXCEPT ![t] = NoResult]
    /\ scope' = [scope EXCEPT ![t] = NoScope]
    /\ closed' = [closed EXCEPT ![t] = FALSE]
    /\ IF Writeable(k)
          THEN /\ pc' = [pc EXCEPT ![t] = "gc_lock"]
               /\ conn' = [conn EXCEPT ![t] = FALSE]
          ELSE /\ pc' = [pc EXCEPT ![t] = "open"]
               /\ conn' = [conn EXCEPT ![t] = TRUE]
    /\ UNCHANGED <<poolVars, dbVars, waitSem, txn, view, instHolds, held>>
    /\ UNCHANGED builderVars

\* get_connection: "with self.dict_lock:" entered
GcLock(t) ==
    /\ pc[t] = "gc_lock"
    /\ dict_lock > 0
    /\ dict_lock' = dict_lock - 1
    /\ pc' = [pc EXCEPT ![t] = "gc_member"]
    /\ UNCHANGED <<connections, sems, others, dbVars, kind, name, ret, waitSem,
                   conn, txn, view, closed, result,
                   instHolds, held, scope>>
    /\ UNCHANGED builderVars

\* get_connection: "if not conn_id in self.connections"
GcMember(t) ==
    /\ pc[t] = "gc_member"
    /\ IF connections[name[t]] # NoSlot
          THEN /\ dict_lock' = dict_lock + 1
               /\ pc' = [pc EXCEPT ![t] = "gc_lookup"]
          ELSE /\ dict_lock' = dict_lock
               /\ pc' = [pc EXCEPT ![t] = "gc_cap"]
    /\ UNCHANGED <<connections, sems, others, dbVars, kind, name, ret, waitSem,
                   conn, txn, view, closed, result,
                   instHolds, held, scope>>
    /\ UNCHANGED builderVars

\* get_connection: the capacity test; the ConnectionError leaves the
\* with-block and PocketSearch.__init__ (self.connection is still None,
\* so its close() does nothing)
GcCap(t) ==
    /\ pc[t] = "gc_cap"
    /\ IF PoolFull(PoolLen)
          THEN /\ dict_lock' = dict_lock + 1
               /\ result' = [result EXCEPT ![t] = [err |-> "ConnectionError", name |-> "too many"]]
               /\ pc' = [pc EXCEPT ![t] = "idle"]
          ELSE /\ dict_lock' = dict_lock
               /\ result' = result
               /\ pc' = [pc EXCEPT ![t] = "gc_set"]
    /\ UNCHANGED <<connections, sems, others, dbVars, kind, name, ret, waitSem,
                   conn, txn, view, closed, instHolds, held, scope>>
    /\ UNCHANGED builderVars

\* get_connection: self.connections[conn_id] = {"writer": Semaphore(1)}
GcSet(t) ==
    /\ pc[t] = "gc_set"
    /\ sems' = Append(sems, 1)
    /\ connections' = [connections EXCEPT ![name[t]] = Len(sems) + 1]
    /\ dict_lock' = dict_lock + 1
    /\ pc' = [pc EXCEPT ![t] = "gc_lookup"]
    /\ UNCHANGED <<others, dbVars, kind, name, ret, waitSem,
                   conn, txn, view, closed, result,
                   instHolds, held, scope>>
    /\ UNCHANGED builderVars

\* get_connection: self.connections[conn_id]["writer"] is evaluated
GcLookup(t) ==
    /\ pc[t] = "gc_lookup"
    /\ waitSem' = [waitSem EXCEPT ![t] = connections[name[t]]]
    /\ pc' = [pc EXCEPT ![t] = "gc_acquire"]
    /\ UNCHANGED <<poolVars, dbVars, kind, name, ret,
                   conn, txn, view, closed, result,
                   instHolds, held, scope>>
    /\ UNCHANGED builderVars

\* get_connection: .acquire(timeout=...) succeeds and _open returns
GcAcquire(t) ==
    /\ pc[t] = "gc_acquire"
    /\ sems[waitSem[t]] > 0
    /\ sems' = [sems EXCEPT ![waitSem[t]] = @ - 1]
    /\ waitSem' = [waitSem EXCEPT ![t] = NoSlot]
    /\ instHolds' = [instHolds EXCEPT ![t] = TRUE]
    /\ held' = [held EXCEPT ![name[t]] = @ + 1]
    /\ IF ret[t] = "init"
          THEN /\ conn' = [conn EXCEPT ![t] = TRUE]
               /\ pc' = [pc EXCEPT ![t] = "create_table"]
          ELSE /\ conn' = conn
               /\ pc' = [pc EXCEPT ![t] = "vacuum"]
    /\ UNCHANGED <<connections, others, dict_lock, dbVars, kind, name, ret,
                   txn, view, closed, result, scope>>
    /\ UNCHANGED builderVars

\* get_connection: .acquire(timeout=...) returned False: ConnectionError
\* naming conn_id; raised out of __init__ (no instance) or out of optimize()
GcTimeout(t) ==
    /\ pc[t] = "gc_acquire"
    /\ AcquireTimesOut(sems[waitSem[t]])
    /\ waitSem' = [waitSem EXCEPT ![t] = NoSlot]
    /\ result' = [result EXCEPT ![t] = [err |-> "ConnectionError", name |-> name[t]]]
    /\ pc' = [pc EXCEPT ![t] = IF ret[t] = "init" THEN "idle" ELSE "open"]
    /\ UNCHANGED <<poolVars, dbVars, kind, name, ret,
                   conn, txn, view, closed, instHolds, held, scope>>
    /\ UNCHANGED builderVars

(***************************************************************************)
(* PocketSearch: __init__ after _open, _close, optimize                    *)
(***************************************************************************)
\* position after __init__ returned: PocketWriter.__init__ goes on to
\* execute_sql("begin")
AfterInit(t) == IF kind[t] = "scope" THEN "body" ELSE "open"

\* the instance is forgotten by its thread
Forgotten(t) ==
    /\ pc' = [pc EXCEPT ![t] = "idle"]
    /\ kind' = [kind EXCEPT ![t] = "plain"]
    /\ name' = [name EXCEPT ![t] = "db1"]
    /\ ret' = [ret EXCEPT ![t] = "init"]
    /\ conn' = [conn EXCEPT ![t] = FALSE]
    /\ closed' = [closed EXCEPT ![t] = FALSE]
    /\ instHolds' = [instHolds EXCEPT ![t] = FALSE]

\* release_connection(db_name, connection, writeable): the connection
\* answers "SELECT 1" and is left open; the semaphore stored for the name
\* is released "if writeable:"
\* (the semaphore's value is followed up to MaxSemValue)
CanRelease(t) == Writeable(kind[t]) => sems[connections[name[t]]] < MaxSemValue
ReleasedSems(t) == IF Writeable(kind[t]) THEN SemRelease(name[t]) ELSE sems
ReleasedHeld(t) == IF instHolds[t] /\ Writeable(kind[t])
                      THEN [held EXCEPT ![name[t]] = @ - 1] ELSE held

\* _create_table: on an index whose tables exist nothing is written; on a
\* new one "begin" and the first CREATE take the engine's write lock, or
\* fail with "database is locked", and then __init__ calls self.close()
\* (commit, release_connection) and re-raises
CreateTable(t) ==
    /\ pc[t] = "create_table"
    /\ LET n == name[t] IN
       IF initialized[n]
          THEN /\ pc' = [pc EXCEPT ![t] = AfterInit(t)]
               /\ txn' = [txn EXCEPT ![t] = kind[t] = "scope"]
               /\ scope' = [scope EXCEPT ![t].exit = IF kind[t] = "scope" THEN "open" ELSE @]
               /\ UNCHANGED <<poolVars, dbVars, kind, name, ret, conn, closed, result, instHolds, held>>
          ELSE IF dbLock[n] = NoThread
          THEN /\ dbLock' = [dbLock EXCEPT ![n] = t]
               /\ pc' = [pc EXCEPT ![t] = "ct_commit"]
               /\ UNCHANGED <<poolVars, db, initialized, kind, name, ret, conn,
                              closed, result, instHolds, held,
                              txn, scope>>
          ELSE /\ sems' = ReleasedSems(t)
               /\ held' = ReleasedHeld(t)
               /\ result' = [result EXCEPT ![t] = [err |-> "OperationalError", name |-> n]]
               /\ Forgotten(t)
               /\ UNCHANGED <<connections, others, dict_lock, dbVars, txn, scope>>
    /\ UNCHANGED <<waitSem, view>>
    /\ UNCHANGED builderVars

\* _create_table: self.cursor.execute("commit")
CtCommit(t) ==
    /\ pc[t] = "ct_commit"
    /\ initialized' = [initialized EXCEPT ![name[t]] = TRUE]
    /\ dbLock' = [dbLock EXCEPT ![name[t]] = NoThread]
    /\ pc' = [pc EXCEPT ![t] = AfterInit(t)]
    /\ txn' = [txn EXCEPT ![t] = kind[t] = "scope"]
    /\ scope' = [scope EXCEPT ![t].exit = IF kind[t] = "scope" THEN "open" ELSE @]
    /\ UNCHANGED <<poolVars, db, kind, name, ret, waitSem, conn, view, closed, result, instHolds, held>>
    /\ UNCHANGED builderVars

\* PocketSearch._close (= close): if self.connection: commit when
\* writeable, then release_connection; self.connection stays set
Close(t) ==
    /\ pc[t] = "open"
    /\ CanRelease(t)
    /\ conn[t]
    /\ closed' = [closed EXCEPT ![t] = TRUE]
    /\ db' = IF Writeable(kind[t]) THEN Committed(t) ELSE db
    /\ dbLock' = IF Writeable(kind[t]) THEN Unlocked(t) ELSE dbLock
    /\ txn' = [txn EXCEPT ![t] = IF Writeable(kind[t]) THEN FALSE ELSE @]
    /\ sems' = ReleasedSems(t)
    /\ held' = ReleasedHeld(t)
    /\ instHolds' = [instHolds EXCEPT ![t] = IF Writeable(kind[t]) THEN FALSE ELSE @]
    /\ UNCHANGED <<connections, others, dict_lock, initialized, pc, kind, name,
                   ret, waitSem, conn, view, result, scope>>
    /\ UNCHANGED builderVars

\* PocketSearch.optimize: assure_writeable, self._close(), then
\* self._open() enters get_connection again
Optimize(t) ==
    /\ pc[t] = "open"
    /\ Writeable(kind[t])
    /\ CanRelease(t)
    /\ db' = Committed(t)
    /\ dbLock' = Unlocked(t)
    /\ txn' = [txn EXCEPT ![t] = FALSE]
    /\ sems' = ReleasedSems(t)
    /\ held' = ReleasedHeld(t)
    /\ instHolds' = [instHolds EXCEPT ![t] = FALSE]
    /\ ret' = [ret EXCEPT ![t] = "optimize"]
    /\ pc' = [pc EXCEPT ![t] = "gc_lock"]
    /\ UNCHANGED <<connections, others, dict_lock, initialized, kind, name,
                   waitSem, conn, view, closed, result, scope>>
    /\ UNCHANGED builderVars

\* PocketSearch.optimize: VACUUM on the new connection, which is then
\* closed (or "database is locked" while another connection writes)
Vacuum(t) ==
    /\ pc[t] = "vacuum"
    /\ pc' = [pc EXCEPT ![t] = "open"]
    /\ result' = [result EXCEPT ![t] =
                    IF dbLock[name[t]] = NoThread THEN @
                    ELSE [err |-> "OperationalError", name |-> name[t]]]
    /\ UNCHANGED <<poolVars, dbVars, kind, name, ret, waitSem, conn, txn, view,
                   closed, instHolds, held, scope>>
    /\ UNCHANGED builderVars

\* the caller lets go of an instance it has closed
Drop(t) ==
    /\ pc[t] = "open"
    /\ closed[t]
    /\ ~instHolds[t]
    /\ Forgotten(t)
    /\ UNCHANGED <<poolVars, dbVars, waitSem, txn, view, result,
                   held, scope>>
    /\ UNCHANGED builderVars

(***************************************************************************)
(* PocketWriter: the scope body and __exit__                               *)
(***************************************************************************)
\* the rowid the engine gives the next inserted row
NewRow(tbl) == IF \E d \in DocIds : tbl[d] # 0
                  THEN 1 + CHOOSE d \in DocIds : tbl[d] # 0 /\ \A e \in DocIds : tbl[e] # 0 => e <= d
                  ELSE 1

\* content after one statement; 1 is a row as inserted, 2 an updated row
Applied(tbl, st) ==
    CASE st.op = "insert" -> [tbl EXCEPT ![NewRow(tbl)] = 1]
      [] st.op = "update" -> [tbl EXCEPT ![st.d] = IF @ = 0 THEN 0 ELSE 2]
      [] st.op = "delete" -> [tbl EXCEPT ![st.d] = 0]
      [] st.op = "delete_all" -> EmptyTable

Statements == {[op |-> "insert", d |-> 0], [op |-> "delete_all", d |-> 0]}
              \cup {[op |-> o, d |-> d] : o \in {"update", "delete"}, d \in DocIds}

\* the content the instance's connection reads
Seen(t) == IF dbLock[name[t]] = t THEN view[t] ELSE db[name[t]]

\* insert / update / delete / delete_all in the scope body: the sqlite3
\* module begins a transaction when none is active, the statement takes
\* the engine's write lock or fails with "database is locked", which
\* leaves the body as an exception
Statement(t, st) ==
    /\ pc[t] = "body"
    /\ st.op = "insert" => NewRow(Seen(t)) \in DocIds
    /\ txn' = [txn EXCEPT ![t] = TRUE]
    /\ IF dbLock[name[t]] \in {NoThread, t}
          THEN /\ dbLock' = [dbLock EXCEPT ![name[t]] = t]
               /\ view' = [view EXCEPT ![t] = Applied(Seen(t), st)]
               /\ pc' = pc
          ELSE /\ dbLock' = dbLock
               /\ view' = view
               /\ pc' = [pc EXCEPT ![t] = "exit_exc"]
    /\ UNCHANGED <<poolVars, db, initialized, kind, name, ret, waitSem, conn,
                   closed, result, instHolds, held, scope>>
    /\ UNCHANGED builderVars

\* PocketSearch.commit() in the scope body: self.connection.commit()
Commit(t) ==
    /\ pc[t] = "body"
    /\ db' = Committed(t)
    /\ dbLock' = Unlocked(t)
    /\ txn' = [txn EXCEPT ![t] = FALSE]
    /\ view' = [view EXCEPT ![t] = EmptyTable]
    /\ scope' = [scope EXCEPT ![t].published = @ \/ dbLock[name[t]] = t]
    /\ UNCHANGED <<poolVars, initialized, pc, kind, name, ret, waitSem, conn,
                   closed, result, instHolds, held>>
    /\ UNCHANGED builderVars

\* execute_sql("commit") on a clean exit, execute_sql("rollback") otherwise
ExitCommitsAlways(exc) == TRUE
ExitCommits(exc) == ~exc

\* PocketWriter.__exit__: commit or rollback through execute_sql, which
\* raises when no transaction is active, and only then self.pocketsearch.close()
ScopeExit(t, exc) ==
    /\ IF txn[t]
          THEN /\ db' = IF ExitCommits(exc) THEN Committed(t) ELSE db
               /\ dbLock' = Unlocked(t)
               /\ sems' = ReleasedSems(t)
               /\ held' = ReleasedHeld(t)
               /\ result' = result
               /\ scope' = [scope EXCEPT ![t].exit = IF exc THEN "raised" ELSE "clean",
                                         ![t].released = TRUE,
                                         ![t].published = @ \/ (ExitCommits(exc) /\ dbLock[name[t]] = t),
                                         ![t].lost = ~ExitCommits(exc) /\ dbLock[name[t]] = t]
          ELSE /\ UNCHANGED <<db, dbLock, sems, held>>
               /\ result' = [result EXCEPT ![t] = [err |-> "OperationalError", name |-> name[t]]]
               /\ scope' = [scope EXCEPT ![t].exit = IF exc THEN "raised" ELSE "clean",
                                         ![t].released = FALSE]
    /\ txn' = [txn EXCEPT ![t] = FALSE]
    /\ view' = [view EXCEPT ![t] = EmptyTable]
    /\ Forgotten(t)
    /\ UNCHANGED <<connections, others, dict_lock, initialized, waitSem>>
    /\ UNCHANGED builderVars

\* the body returns
ExitClean(t) ==
    /\ pc[t] = "body"
    /\ CanRelease(t)
    /\ ScopeExit(t, FALSE)

\* the body raises, by itself or out of a failed statement
ExitRaise(t) ==
    /\ pc[t] \in {"body", "exit_exc"}
    /\ CanRelease(t)
    /\ ScopeExit(t, TRUE)

(***************************************************************************)
(* Unicode61 and MatchFilter.  A string is a sequence of one-character     *)
(* strings.                                                                *)
(***************************************************************************)
Quote == "\""
Space == " "
AND == <<"A", "N", "D">>
OR == <<"O", "R">>
NOT == <<"N", "O", "T">>

LU_EQ == "eq"
LU_BOOL == "allow_boolean"
LU_NEG == "allow_negation"
LU_PREFIX == "allow_prefix"
LU_INITIAL_TOKEN == "allow_initial_token"

\* Lookup.names as get_arguments builds it from the keyword: ["eq"] for a
\* bare field name, the names after the field name otherwise
Modifiers == {LU_BOOL, LU_NEG, LU_PREFIX, LU_INITIAL_TOKEN}
LookupNames == {{LU_EQ}} \cup (SUBSET Modifiers \ {{}})

\* the lookup values: up to MaxValuePieces pieces, one after the other
ValuePieces == {<<"a">>, AND, OR, NOT, <<Space>>, <<Quote>>,
                <<"*">>, <<"^">>, <<"(">>, <<")">>}

RECURSIVE ValuesOf(_)
ValuesOf(k) ==
    IF k = 0 THEN {<< >>}
    ELSE LET shorter == ValuesOf(k - 1)
         IN shorter \cup {v \o p : v \in shorter, p \in ValuePieces}

EscapeValues == ValuesOf(MaxValuePieces)

\* the value None of a keyword, beside the strings
NoValue == <<"None">>

\* PocketSearch._clear_kwargs on the value of one keyword
clear_kwargs(v) == IF v = NoValue \/ Len(v) = 0 THEN <<Quote, Quote>> ELSE v

\* x in s, for a list s
InSeq(x, s) == \E i \in 1..Len(s) : s[i] = x

\* unicodedata.category(character)
UnicodeCategory(character) ==
    CASE character \in {"A", "N", "D", "O", "R", "T"} -> <<"L", "u">>
      [] character \in {"a", "t", "e", "x"} -> <<"L", "l">>
      [] character = Space -> <<"Z", "s">>
      [] character \in {Quote, "*", ":"} -> <<"P", "o">>
      [] character = "^" -> <<"S", "k">>
      [] character = "(" -> <<"P", "s">>
      [] character = ")" -> <<"P", "e">>
      [] character = "4" -> <<"N", "d">>
      [] character = "-" -> <<"P", "d">>
      [] character = "_" -> <<"P", "c">>

\* Schema.Meta.tokenizer = Unicode61(): the properties after __init__, with
\* categories as categories.split() gives them; tokenchars is None and so
\* not a property, separators is ""
Unicode61 == [categories |-> << <<"L", "*">>, <<"N", "*">>, <<"C", "o">> >>,
              tokenchars |-> << >>,
              separators |-> << >>]

\* Unicode61.is_tokenchar
is_tokenchar(tokenizer, character) ==
    IF InSeq(character, tokenizer.separators) THEN FALSE
    ELSE IF InSeq(<<character>>, tokenizer.tokenchars) THEN TRUE
    ELSE LET ch_category == UnicodeCategory(character)
         IN \/ InSeq(ch_category, tokenizer.categories)
            \/ InSeq(<<ch_category[1], "*">>, tokenizer.categories)

\* the arguments of Unicode61(categories=..., tokenchars=..., separators=...):
\* strings, or None for categories and tokenchars
Categories == {NoValue, <<"N", "*">>, <<"L", "u", Space, "N", "d">>}
Tokenchars == {NoValue, << >>, <<"-">>, <<"_">>, <<"-", "_">>, <<"-", Space, "_">>}
Separators == {<< >>, <<"-">>, <<"a", "4">>}

\* Unicode61.__init__: the values of the properties; tokenchars None is
\* no property
Unicode61_init(categories, tokenchars, separators) ==
    [categories |-> IF categories = NoValue
                       THEN <<"L", "*", Space, "N", "*", Space, "C", "o">>
                       ELSE categories,
     tokenchars |-> tokenchars,
     separators |-> separators]

\* Unicode61.tokenize: output_str, character by character
output_str(tokenizer, input_str, keep) ==
    [i \in 1..Len(input_str) |->
        IF InSeq(input_str[i], keep) THEN input_str[i]
        ELSE IF is_tokenchar(tokenizer, input_str[i]) THEN input_str[i]
        ELSE Space]

\* [ch for ch in s.split(" ") if len(ch) > 0], from position i on, with
\* the word under construction
RECURSIVE split(_, _, _)
split(s, i, word) ==
    IF i > Len(s) THEN (IF word = << >> THEN << >> ELSE <<word>>)
    ELSE IF s[i] = Space
         THEN (IF word = << >> THEN << >> ELSE <<word>>) \o split(s, i + 1, << >>)
         ELSE split(s, i + 1, Append(word, s[i]))

\* Unicode61.tokenize
tokenize(tokenizer, input_str, keep) ==
    split(output_str(tokenizer, input_str, keep), 1, << >>)

\* Unicode61.is_tokenchar: categories and tokenchars as value.split() gives
\* them, no tokenchars without the property
Properties(t) ==
    [categories |-> split(t.categories, 1, << >>),
     tokenchars |-> IF t.tokenchars = NoValue THEN << >> ELSE split(t.tokenchars, 1, << >>),
     separators |-> t.separators]

\* the strings tokenized
Characters == {"a", "A", "4", "-", "_", Space}
Inputs == {<<c>> : c \in Characters} \cup {<<"a", c, "4">> : c \in Characters}

\* no call of tokenize has returned
NotTokenized == <<NoValue>>

\* Unicode61(...).tokenize(value) on the object unicode61
Tokenize ==
    /\ tokenized' = tokenize(Properties(unicode61), value, << >>)
    /\ UNCHANGED <<value, lookup, operand, unicode61, queryVars, dataVars, composeVars, callVars,
                   indexVars>>

\* Filter.__init__: self.operators
operators(names) ==
    <<Quote>>
    \o (IF LU_PREFIX \in names THEN <<"*">> ELSE << >>)
    \o (IF LU_INITIAL_TOKEN \in names THEN <<"^">> ELSE << >>)
    \o (IF LU_BOOL \in names THEN <<"(", ")">> ELSE << >>)

\* Filter.__init__: self.keywords
keywords(names) ==
    (IF LU_BOOL \in names THEN <<AND, OR>> ELSE << >>)
    \o (IF LU_NEG \in names THEN <<NOT>> ELSE << >>)

\* MatchFilter._escape: the loop over tokens_1, from token i on
RECURSIVE escape_tokens(_, _, _, _)
escape_tokens(names, tokens_1, i, multiple_token_quote) ==
    IF i > Len(tokens_1) THEN << >>
    ELSE LET token == tokens_1[i]
             mtq == IF token[Len(token)] = Quote THEN FALSE
                    ELSE IF token[1] = Quote THEN TRUE
                    ELSE multiple_token_quote
             quote == /\ ~InSeq(token, keywords(names))
                      /\ \A k \in 1..Len(operators(names)) :
                            ~InSeq(operators(names)[k], token)
         IN <<IF quote /\ ~mtq THEN <<Quote>> \o token \o <<Quote>> ELSE token>>
            \o escape_tokens(names, tokens_1, i + 1, mtq)

\* sep.join(tokens)
RECURSIVE join(_, _)
join(sep, tokens) ==
    IF tokens = << >> THEN << >>
    ELSE IF Len(tokens) = 1 THEN tokens[1]
    ELSE tokens[1] \o sep \o join(sep, Tail(tokens))

\* MatchFilter._escape
escape(names, v) ==
    LET tokens == escape_tokens(names, tokenize(Unicode61, v, operators(names)), 1, FALSE)
    IN IF Len(tokens) = 0 THEN <<Quote, Quote>> ELSE join(<<Space>>, tokens)

\* the name of the field of DefaultSchema
FieldName == <<"t", "e", "x", "t">>

\* MatchFilter.to_sql: "%s:%s" % (self.field.name, self._escape(self.value))
MatchFilter_to_sql(names, v) == FieldName \o <<":">> \o escape(names, v)

\* search(text__<names>=value): the filter of the lookup is rendered
Render ==
    /\ operand = << >>
    /\ operand' = MatchFilter_to_sql(lookup, clear_kwargs(value))
    /\ UNCHANGED <<value, lookup, unicode61, tokenized, queryVars, dataVars, composeVars, callVars,
                   indexVars>>

(***************************************************************************)
(* Query and SQLQuery.  A statement is the sequence of its clauses, each   *)
(* one a keyword with what follows it.                                     *)
(***************************************************************************)
\* Schema.fields of DefaultSchema, in the order Schema.__init__ fills it
SchemaFields == <<"rank", "text", "id">>

\* the values searched for
QueryTerms == {"a"}

\* the Query objects a behaviour creates, in this order
QueryIds == {1, 2}

\* the arguments of values calls: field names
ValueArgs == {<<"text">>, <<"id", "nofield">>}

\* the arguments of order_by calls: the sign and the field name of each
OrderArgs == {<<[sign |-> "-", field |-> "text"]>>,
              <<[sign |-> "", field |-> "id"], [sign |-> "+", field |-> "nofield"]>>}

\* a value handed to int(): int() returns v when parses, and raises otherwise
PyNone == [type |-> "NoneType", parses |-> FALSE, v |-> 0]
PyInt(n) == [type |-> "int", parses |-> TRUE, v |-> n]
PyStr(parses, n) == [type |-> "str", parses |-> parses, v |-> n]

\* slice.start / slice.stop and plain indexes
SliceStarts == {PyNone, PyInt(1)}
SliceStops == {PyNone, PyInt(3)}
Indexes == {PyInt(0)}

\* slice.start and indexes of every kind: None, "x", "1", -1, 1
Bounds == {PyNone, PyStr(FALSE, 0), PyStr(TRUE, 1), PyInt(-1), PyInt(1)}
\* slice.stop: None, -1, 2
StopBounds == {PyNone, PyInt(-1), PyInt(2)}

\* the numbers of documents a lookup may match
HitCounts == {1, MaxHits}

\* SQLQuery.v_limit_and_offset: None, or LimitAndOffset(limit, offset)
NoLimit == [set |-> FALSE, limit |-> 0, offset |-> 0]
LimitAndOffset(limit, offset) == [set |-> TRUE, limit |-> limit, offset |-> offset]

NoStmt == [by |-> 0, via |-> "none", aggregate |-> FALSE, sql |-> << >>]
Clause(kw, arg) == [kw |-> kw, arg |-> arg]

\* Query.__init__: every field selected, the lookup as filter,
\* order_by("+rank"), limit_and_offset(limit=10, offset=0), no union
NewQuery(term) ==
    [term |-> term,
     v_select |-> SchemaFields,
     functions |-> {},         \* the positions in v_select of the Select objects with a Highlight
     v_order_by |-> <<[field |-> "rank", sort_dir |-> "+"]>>,
     v_limit_and_offset |-> LimitAndOffset(10, 0),
     unions |-> << >>,
     default_order_by_set |-> TRUE,
     default_values_set |-> TRUE,
     is_aggregate_query |-> FALSE,
     customized |-> FALSE]     \* history: an order_by or values call has set a key

\* an operand of | that is no instance of Query
NotAQuery == 0

\* Query._defaults_set
defaults_set_order_by_only(query) == query.default_order_by_set
defaults_set(query) == query.default_order_by_set /\ query.default_values_set

\* SQLQuery.order_by(field, sort_dir, clear) on the list v_order_by
SQLQuery_order_by_appending(v_order_by, key, clear) == Append(v_order_by, key)
SQLQuery_order_by(v_order_by, key, clear) ==
    Append(IF clear THEN << >> ELSE v_order_by, key)

\* the OrderBy objects of the arguments of an order_by call
Keys(args) ==
    [i \in 1..Len(args) |-> [field |-> args[i].field,
                             sort_dir |-> IF args[i].sign = "" THEN "+" ELSE args[i].sign]]

\* Query.order_by: the loop over args from argument i on; get_field raises
\* SchemaError for a name that is no field and leaves the loop
RECURSIVE order_by(_, _, _)
order_by(query, args, i) ==
    IF i > Len(args) THEN [query |-> query, raised |-> "none"]
    ELSE IF ~InSeq(args[i].field, SchemaFields)
         THEN [query |-> query, raised |-> "SchemaError"]
         ELSE order_by([query EXCEPT
                          !.v_order_by = SQLQuery_order_by(@, Keys(args)[i],
                                                           query.default_order_by_set),
                          !.default_order_by_set = FALSE,
                          !.customized = TRUE],
                       args, i + 1)

\* SQLQuery.select(field, clear) on the list v_select
select(v_select, field, clear) ==
    Append(IF clear THEN << >> ELSE v_select, field)

\* Query.values: the loop over args from argument i on
RECURSIVE values_loop(_, _, _)
values_loop(query, args, i) ==
    IF i > Len(args) THEN [query |-> query, raised |-> "none"]
    ELSE IF ~InSeq(args[i], SchemaFields)
         THEN [query |-> query, raised |-> "SchemaError"]
         ELSE values_loop([query EXCEPT
                             !.v_select = select(@, args[i], query.default_values_set),
                             !.functions = IF query.default_values_set THEN {} ELSE @,
                             !.default_values_set = FALSE,
                             !.customized = TRUE],
                          args, i + 1)

\* Query.values on the Query q of heap, and the loop that hands the call on
\* to the Query objects of self.unions from the k-th on; an exception ends
\* the call with what has been set so far
RECURSIVE values(_, _, _)
RECURSIVE values_unions(_, _, _, _)
values(heap, q, args) ==
    LET own == values_loop(heap[q], args, 1)
        set == [heap EXCEPT ![q] = own.query]
    IN IF own.raised # "none" THEN [heap |-> set, raised |-> own.raised]
       ELSE values_unions(set, q, args, 1)
values_unions(heap, q, args, k) ==
    IF k > Len(heap[q].unions) THEN [heap |-> heap, raised |-> "none"]
    ELSE LET sibling == values(heap, heap[q].unions[k], args)
         IN IF sibling.raised # "none" THEN sibling
            ELSE values_unions(sibling.heap, q, args, k + 1)

\* Select.to_sql of the selected columns: the function of a Select with one
Selected(query) ==
    [n \in 1..Len(query.v_select) |->
        IF n \in query.functions THEN "highlight(documents_fts) as text" ELSE query.v_select[n]]

\* OrderBy.to_sql
OrderBy_to_sql(o) == [field |-> o.field, dir |-> IF o.sort_dir = "-" THEN "DESC" ELSE "ASC"]

\* SQLQuery.to_sql
to_sql(query) ==
    <<Clause("SELECT", Selected(query)), Clause("FROM", << >>),
      Clause("WHERE", << >>), Clause("MATCH ?", <<query.term>>)>>
    \o (IF Len(query.v_order_by) > 0 THEN <<Clause("ORDER BY", << >>)>> ELSE << >>)
    \o <<Clause("", [i \in 1..Len(query.v_order_by) |-> OrderBy_to_sql(query.v_order_by[i])])>>
    \o (IF query.v_limit_and_offset.set
           THEN <<Clause("LIMIT", <<query.v_limit_and_offset.limit>>),
                  Clause("OFFSET", <<query.v_limit_and_offset.offset>>)>>
           ELSE << >>)

\* Query._adapt_union_queries on the objects of heap, for the Query q
adapt_union_queries(heap, q) ==
    LET unions == heap[q].unions
        last_query == unions[Len(unions)]
        copied == IF Len(unions) > 0
                     THEN IF ~heap[q].is_aggregate_query
                             THEN [heap EXCEPT
                                     ![last_query].v_order_by = heap[q].v_order_by,
                                     ![last_query].v_limit_and_offset = heap[q].v_limit_and_offset]
                             ELSE [heap EXCEPT ![last_query].v_order_by = << >>]
                     ELSE heap
        others_cleared == [o \in 1..Len(heap) |->
                             IF \E k \in 1..(Len(unions) - 1) : unions[k] = o
                                THEN [copied[o] EXCEPT !.v_order_by = << >>,
                                                       !.v_limit_and_offset = NoLimit]
                                ELSE copied[o]]
    IN [others_cleared EXCEPT ![q].v_order_by = << >>,
                              ![q].v_limit_and_offset = NoLimit]

\* Query._query: the objects after the call
queried(heap, q) ==
    IF Len(heap[q].unions) > 0 THEN adapt_union_queries(heap, q) ELSE heap

\* Query._query: stmt, the statement of the Query and " UNION " with the
\* statement of each Query of self.unions
RECURSIVE union_sql(_, _, _)
union_sql(heap, unions, k) ==
    IF k > Len(unions) THEN << >>
    ELSE <<Clause("UNION", << >>)>> \o to_sql(heap[unions[k]]) \o union_sql(heap, unions, k + 1)

executed(heap, q, via) ==
    [by |-> q, via |-> via, aggregate |-> heap[q].is_aggregate_query,
     sql |-> to_sql(heap[q]) \o union_sql(heap, heap[q].unions, 1)]

\* the LIMIT / OFFSET a statement ends with, if any
StatementLimit(sql) ==
    LET at == {i \in 1..Len(sql) : sql[i].kw = "LIMIT"}
    IN IF at = {} THEN NoLimit
       ELSE LET i == CHOOSE j \in at : \A k \in at : k <= j
            IN LimitAndOffset(sql[i].arg[1], sql[i + 1].arg[1])

\* the positions, counted from 0, of the rows of an n-row result that the
\* engine delivers under LIMIT / OFFSET: a negative LIMIT is no limit, a
\* negative OFFSET is 0
Kept(n, lim) ==
    IF ~lim.set THEN 0..(n - 1)
    ELSE LET first == IF lim.offset < 0 THEN 0 ELSE lim.offset
         IN {p \in 0..(n - 1) : p >= first /\ (lim.limit < 0 \/ p < first + lim.limit)}

RECURSIVE SetSum(_)
SetSum(S) == IF S = {} THEN 0 ELSE LET x == CHOOSE y \in S : TRUE IN x + SetSum(S \ {x})

\* the documents the Query objects of S match, no document matched by two
RECURSIVE Matching(_, _)
Matching(counted, S) ==
    IF S = {} THEN 0 ELSE LET o == CHOOSE x \in S : TRUE IN counted[o] + Matching(counted, S \ {o})

NoReturn == [kind |-> "none", count |-> 0, rows |-> {}]

\* the Query objects whose SELECT is part of the statement of q
Selects(heap, q) == {q} \cup {heap[q].unions[k] : k \in 1..Len(heap[q].unions)}

\* the SELECTs of a compound statement must have the same number of columns
Compatible(heap, q) ==
    \A o \in Selects(heap, q) : Len(heap[o].v_select) = Len(heap[q].v_select)

\* execute_sql of the statement of q and the loop of Query._query over the
\* rows: the values a count may return.  Each SELECT COUNT(*) is one row,
\* UNION keeps the distinct rows, and the engine is free in the order of
\* the rows LIMIT / OFFSET choose from.
Counts(heap, q, counted) ==
    LET rows == {counted[o] : o \in Selects(heap, q)}
        kept == Cardinality(Kept(Cardinality(rows), StatementLimit(executed(heap, q, "count").sql)))
    IN {SetSum(R) : R \in {T \in SUBSET rows : Cardinality(T) = kept}}

\* execute_sql of the statement of q and Query._build_results: the
\* positions, in the order of the statement, of the documents returned
Rows(heap, q, counted) ==
    LET n == IF heap[q].v_select = <<"COUNT(*)">>
                THEN Cardinality({counted[o] : o \in Selects(heap, q)})
                ELSE Matching(counted, Selects(heap, q))
    IN Kept(n, StatementLimit(executed(heap, q, "rows").sql))

\* PocketSearch.search(text=term): a new Query
Search(term) ==
    /\ Len(queries) + 1 \in QueryIds
    /\ queries' = Append(queries, NewQuery(term))
    /\ raised' = "none"
    /\ UNCHANGED <<stmt, dataVars, composeVars, callVars, escapeVars, indexVars>>

\* Query.__or__: q | r (r is a Query created after q, or NotAQuery)
Or(q, r) ==
    /\ q < r \/ r = NotAQuery
    /\ Len(queries[q].unions) < MaxUnions
    /\ IF r = NotAQuery \/ ~defaults_set(queries[r]) \/ ~defaults_set(queries[q])
          THEN /\ raised' = "QueryError"
               /\ queries' = queries
          ELSE /\ raised' = "none"
               /\ queries' = [queries EXCEPT ![q].unions = Append(@, r)]
    /\ UNCHANGED <<stmt, dataVars, composeVars, callVars, escapeVars, indexVars>>

\* Query.order_by(*args)
OrderBy(q, args) ==
    /\ queries[q].default_order_by_set \/ Len(queries[q].v_order_by) + Len(args) <= MaxOrderBy
    /\ LET r == order_by(queries[q], args, 1)
       IN /\ queries' = [queries EXCEPT ![q] = r.query]
          /\ raised' = r.raised
    /\ UNCHANGED <<stmt, dataVars, composeVars, callVars, escapeVars, indexVars>>

\* Query.values(*args)
Values(q, args) ==
    /\ LET r == values(queries, q, args)
       IN /\ \A o \in 1..Len(queries) :
                r.heap[o].default_values_set \/ Len(r.heap[o].v_select) <= MaxValues
          /\ queries' = r.heap
          /\ raised' = r.raised
    /\ UNCHANGED <<stmt, dataVars, composeVars, callVars, escapeVars, indexVars>>

\* Query.count(): count mode, COUNT(*) selected in the Query and in every
\* Query of self.unions, then self._query()
Count(q) ==
    /\ LET counting == [o \in 1..Len(queries) |->
                          IF o = q
                             THEN [queries[o] EXCEPT !.is_aggregate_query = TRUE,
                                                     !.v_select = <<"COUNT(*)">>,
                                                     !.functions = {}]
                             ELSE IF InSeq(o, queries[q].unions)
                             THEN [queries[o] EXCEPT !.v_select = <<"COUNT(*)">>,
                                                     !.functions = {}]
                             ELSE queries[o]]
       IN /\ queries' = queried(counting, q)
          /\ stmt' = executed(queries', q, "count")
          /\ \E count \in Counts(queries', q, hits) :
                returned' = [kind |-> "count", count |-> count, rows |-> {}]
    /\ raised' = "none"
    /\ UNCHANGED <<hits, composeVars, callVars, escapeVars, indexVars>>

\* Query.__iter__: iter(self._query()); in count mode _query returns a
\* number, which iter() refuses
Iterate(q) ==
    /\ queries' = queried(queries, q)
    /\ stmt' = executed(queries', q, "iter")
    /\ IF ~Compatible(queries', q)
          THEN /\ raised' = "OperationalError"
               /\ returned' = NoReturn
          ELSE IF queries[q].is_aggregate_query
          THEN /\ raised' = "TypeError"
               /\ returned' = NoReturn
          ELSE /\ raised' = "none"
               /\ returned' = [kind |-> "rows", count |-> 0, rows |-> Rows(queries', q, hits)]
    /\ UNCHANGED <<hits, composeVars, callVars, escapeVars, indexVars>>

\* Query.__getitem__ with a slice
GetSlice(q, start, stop) ==
    /\ LET plain == [queries EXCEPT ![q].is_aggregate_query = FALSE]
       IN IF ~start.parses \/ ~stop.parses
             THEN /\ queries' = plain
                  /\ raised' = "QueryError"
                  /\ UNCHANGED <<stmt, returned>>
             ELSE /\ queries' = queried([plain EXCEPT ![q].v_limit_and_offset =
                                           LimitAndOffset(stop.v, start.v)], q)
                  /\ stmt' = executed(queries', q, "slice")
                  /\ IF ~Compatible(queries', q)
                        THEN /\ raised' = "OperationalError"
                             /\ returned' = NoReturn
                        ELSE /\ raised' = "none"
                             /\ returned' = [kind |-> "rows", count |-> 0,
                                             rows |-> Rows(queries', q, hits)]
    /\ UNCHANGED <<hits, composeVars, callVars, escapeVars, indexVars>>

\* Query.__getitem__ with an index: self._query()[0]
GetItem(q, index) ==
    /\ LET plain == [queries EXCEPT ![q].is_aggregate_query = FALSE]
       IN IF ~index.parses
             THEN /\ queries' = plain
                  /\ raised' = "QueryError"
                  /\ UNCHANGED <<stmt, returned>>
             ELSE /\ queries' = queried([plain EXCEPT ![q].v_limit_and_offset =
                                           LimitAndOffset(1, index.v)], q)
                  /\ stmt' = executed(queries', q, "index")
                  /\ LET rows == Rows(queries', q, hits)
                     IN IF ~Compatible(queries', q)
                           THEN /\ raised' = "OperationalError"
                                /\ returned' = NoReturn
                           ELSE IF rows = {}
                           THEN /\ raised' = "IndexError"
                                /\ returned' = NoReturn
                           ELSE /\ raised' = "none"
                                /\ returned' = [kind |-> "row", count |-> 0,
                                                rows |-> {CHOOSE p \in rows : \A o \in rows : p <= o}]
    /\ UNCHANGED <<hits, composeVars, callVars, escapeVars, indexVars>>

(***************************************************************************)
(* Keyword arguments: PocketSearch.get_arguments, and search / insert /    *)
(* update on an index of the DefaultSchema.                                *)
(***************************************************************************)
LU_GTE == "gte"
LU_LTE == "lte"
LU_GT == "gt"
LU_LT == "lt"
LU_YEAR == "year"
LU_MONTH == "month"
LU_DAY == "day"
LU_HOUR == "hour"
LU_MINUTE == "minute"

\* LOOKUPS: the field classes each lookup name is registered for; none for
\* eq, "valid for all field types"
LOOKUPS ==
    (LU_EQ :> {}) @@ (LU_BOOL :> {"Text"}) @@ (LU_NEG :> {"Text"})
    @@ (LU_PREFIX :> {"Text"}) @@ (LU_INITIAL_TOKEN :> {"Text"})
    @@ (LU_GTE :> {"Int"}) @@ (LU_LTE :> {"Int"}) @@ (LU_GT :> {"Int"}) @@ (LU_LT :> {"Int"})
    @@ (LU_YEAR :> {"Date", "Datetime"}) @@ (LU_MONTH :> {"Date", "Datetime"})
    @@ (LU_DAY :> {"Date", "Datetime"})
    @@ (LU_HOUR :> {"Datetime"}) @@ (LU_MINUTE :> {"Datetime"})

\* the fields of the schema AllFields of the tests that filters are built
\* for (no full-text field among them), and their classes
AllFields == ("f1" :> "Int") @@ ("f5" :> "Datetime") @@ ("f6" :> "Date")

\* the class of each field of the DefaultSchema and of AllFields, and the
\* classes a class is an instance of (IdField is a subclass of Int)
FieldClass == ("rank" :> "Rank") @@ ("text" :> "Text") @@ ("id" :> "IdField") @@ AllFields
Classes(class) == IF class = "IdField" THEN {"IdField", "Int"} ELSE {class}

\* Field.fts_enabled: Text.index, set for the text field of the DefaultSchema
fts_enabled(field) == FieldClass[field] = "Text"

\* a keyword as kwarg.split("__") sees it: the field name comp[0] and the
\* lookup names comp[1:]
Keyword(field, names) == [field |-> field, names |-> names]

Keywords ==
    {Keyword("text", << >>), Keyword("text", <<LU_BOOL>>), Keyword("text", <<LU_GTE>>),
     Keyword("text", <<LU_BOOL, "nolookup">>), Keyword("id", <<LU_PREFIX>>),
     Keyword("nofield", << >>)}

\* **kwargs: one keyword, or text=... and another keyword in either order
Kwargs ==
    {<<k>> : k \in Keywords}
    \cup {<<Keyword("text", << >>), k>> : k \in Keywords \ {Keyword("text", << >>)}}
    \cup {<<k, Keyword("text", << >>)>> : k \in Keywords \ {Keyword("text", << >>)}}

\* Lookup.names of a keyword: ["eq"] for a keyword without lookup names
Lookup(keyword) == IF keyword.names # << >> THEN keyword.names ELSE <<LU_EQ>>

\* the lookups of the keywords of kwargs that name the field, in their order
RECURSIVE Lookups(_, _, _)
Lookups(kwargs, field, i) ==
    IF i > Len(kwargs) THEN << >>
    ELSE (IF kwargs[i].field = field THEN <<Lookup(kwargs[i])>> ELSE << >>)
         \o Lookups(kwargs, field, i + 1)

\* the Argument objects of the fields of the schema from the i-th on
RECURSIVE Arguments(_, _)
Arguments(kwargs, i) ==
    IF i > Len(SchemaFields) THEN << >>
    ELSE (IF \E k \in 1..Len(kwargs) : kwargs[k].field = SchemaFields[i]
             THEN <<[field |-> SchemaFields[i], lookups |-> Lookups(kwargs, SchemaFields[i], 1)]>>
             ELSE << >>)
         \o Arguments(kwargs, i + 1)

\* the keys of referenced_fields, in the order of their insertion
RECURSIVE Referenced(_, _)
Referenced(kwargs, i) ==
    IF i > Len(kwargs) THEN << >>
    ELSE LET later == Referenced(kwargs, i + 1)
             other(field) == field # kwargs[i].field
         IN <<kwargs[i].field>> \o SelectSeq(later, other)

\* the loop of get_arguments over referenced_fields from the i-th key on:
\* the message of the FieldError it raises, "" if it raises none
RECURSIVE known(_, _, _)
known(kwargs, fields, i) ==
    IF i > Len(fields) THEN ""
    ELSE IF ~InSeq(fields[i], SchemaFields) THEN "Unknown field"
    ELSE IF \E k \in 1..Len(kwargs) :
               /\ kwargs[k].field = fields[i]
               /\ \E n \in 1..Len(Lookup(kwargs[k])) : Lookup(kwargs[k])[n] \notin DOMAIN LOOKUPS
         THEN "Unknown lookup"
    ELSE known(kwargs, fields, i + 1)

\* PocketSearch.get_arguments(kwargs, for_search): the Argument objects, or
\* the message of the FieldError raised
get_arguments_any_lookup(kwargs, for_search) ==
    [message |-> "", arguments |-> Arguments(kwargs, 1)]
get_arguments(kwargs, for_search) ==
    LET K == 1..Len(kwargs)
        error ==
            IF ~for_search /\ \E k \in K : kwargs[k].names # << >>
               THEN "Lookups are not allowed"
            ELSE IF known(kwargs, Referenced(kwargs, 1), 1) # ""
               THEN known(kwargs, Referenced(kwargs, 1), 1)
            ELSE IF ~for_search /\ \E f \in 1..Len(SchemaFields) :
                                     /\ SchemaFields[f] \notin {"id", "rank"}
                                     /\ \A k \in K : kwargs[k].field # SchemaFields[f]
               THEN "Missing field"
            ELSE ""
    IN [message |-> error,
        arguments |-> IF error = "" THEN Arguments(kwargs, 1) ELSE << >>]

\* SQLQuery.__init__: no filter, and no connective between the two clauses;
\* bridged counts the assignments to connect_fts_clause
NoFilters ==
    [v_where |-> << >>, v_where_fts |-> << >>, connect_fts_clause |-> "none", bridged |-> 0]

\* a filter, and a connective (And, Or), as elements of v_where and v_where_fts
Filter(clazz, field, names) == [clazz |-> clazz, field |-> field, names |-> names]
Connective(operator) == [clazz |-> operator, field |-> "", names |-> << >>]

\* SQLQuery.where: the filter class of a field
filter_clazz(field) ==
    IF FieldClass[field] = "Date" THEN "DateFilter"
    ELSE IF fts_enabled(field) THEN "MatchFilter" ELSE "BooleanFilter"

\* SQLQuery.where(field, lookup, operator) on the SQLQuery sql
SQLQuery_where_appending(sql, field, names, operator) ==
    LET item == Filter(filter_clazz(field), field, names)
        pre == IF operator # "none" THEN <<Connective(operator)>> ELSE << >>
    IN IF fts_enabled(field)
          THEN [sql EXCEPT !.v_where_fts = sql.v_where_fts \o pre \o <<item>>]
          ELSE [sql EXCEPT !.v_where = sql.v_where \o pre \o <<item>>]
SQLQuery_where(sql, field, names, operator) ==
    LET item == Filter(filter_clazz(field), field, names)
        bridge == [sql EXCEPT !.connect_fts_clause = operator, !.bridged = sql.bridged + 1]
    IN IF fts_enabled(field)
          THEN LET connected ==
                       IF operator = "none" THEN sql
                       ELSE IF Len(sql.v_where) > 0 /\ Len(sql.v_where_fts) = 0 THEN bridge
                       ELSE [sql EXCEPT !.v_where_fts = Append(sql.v_where_fts, Connective(operator))]
               IN [connected EXCEPT !.v_where_fts = Append(connected.v_where_fts, item)]
          ELSE LET connected ==
                       IF operator # "none"
                          THEN IF Len(sql.v_where_fts) > 0 /\ Len(sql.v_where) = 0 THEN bridge
                               ELSE [sql EXCEPT !.v_where = Append(sql.v_where, Connective(operator))]
                       ELSE IF Len(sql.v_where) > 0
                          THEN [sql EXCEPT !.v_where = Append(sql.v_where, Connective("And"))]
                       ELSE sql
               IN [connected EXCEPT !.v_where = Append(connected.v_where, item)]

\* the loop of Query.__init__ over the lookups of one argument, from the
\* l-th on
RECURSIVE where_lookups(_, _, _, _)
where_lookups(sql, argument, operator, l) ==
    IF l > Len(argument.lookups) THEN sql
    ELSE where_lookups(SQLQuery_where(sql, argument.field, argument.lookups[l], operator),
                       argument, operator, l + 1)

\* Query.__init__: one sql_query.where(field, lookup, operator) for each
\* lookup of each argument from the i-th on
RECURSIVE where(_, _, _, _)
where(sql, arguments, operator, i) ==
    IF i > Len(arguments) THEN sql
    ELSE where(where_lookups(sql, arguments[i], operator, 1), arguments, operator, i + 1)

\* BooleanFilter.__init__: the comparison operator of the lookup names
BooleanFilter_op(names) ==
    IF InSeq(LU_GTE, names) THEN ">="
    ELSE IF InSeq(LU_GT, names) THEN ">"
    ELSE IF InSeq(LU_LTE, names) THEN "<="
    ELSE IF InSeq(LU_LT, names) THEN "<"
    ELSE "="

\* DateFilter.__init__: the strftime format of the lookup names, if any
date_selector(names) ==
    IF InSeq(LU_YEAR, names) THEN "%Y"
    ELSE IF InSeq(LU_MONTH, names) THEN "%m"
    ELSE IF InSeq(LU_DAY, names) THEN "%d"
    ELSE "None"

\* a bound parameter: the value of a filter as given (raw) or formatted as
\* a string (str), or the operand of MATCH made of the full-text filters
\* (match); of holds the filters it comes from
Parameter(form, of) == [form |-> form, of |-> of]

\* BooleanFilter.to_sql: the predicate and the value it adds
BooleanFilter_to_sql(item) ==
    [sql |-> <<item.field, BooleanFilter_op(item.names), "?">>,
     query_args |-> <<Parameter("raw", <<item>>)>>]

\* DateFilter.to_sql
DateFilter_to_sql(item) ==
    IF date_selector(item.names) = "None" THEN BooleanFilter_to_sql(item)
    ELSE [sql |-> <<"CAST(strftime(", date_selector(item.names), item.field, ") AS INTEGER)",
                    BooleanFilter_op(item.names), "?">>,
          query_args |-> <<Parameter("str", <<item>>)>>]

\* to_sql of an element of v_where: a filter, or And / Or
Component_to_sql(item) ==
    IF item.clazz = "DateFilter" THEN DateFilter_to_sql(item)
    ELSE IF item.clazz = "BooleanFilter" THEN BooleanFilter_to_sql(item)
    ELSE [sql |-> <<IF item.clazz = "And" THEN "AND" ELSE "OR">>, query_args |-> << >>]

\* " ".join([w.to_sql() for w in self.v_where]) from the i-th element on,
\* with the values added
RECURSIVE Components_to_sql(_, _)
Components_to_sql(v_where, i) ==
    IF i > Len(v_where) THEN [sql |-> << >>, query_args |-> << >>]
    ELSE LET first == Component_to_sql(v_where[i])
             rest == Components_to_sql(v_where, i + 1)
         IN [sql |-> first.sql \o rest.sql, query_args |-> first.query_args \o rest.query_args]

\* SQLQuery.to_sql: what stands between the attribute clause and MATCH
Bridge(sql) ==
    IF sql.connect_fts_clause # "none" THEN Component_to_sql(Connective(sql.connect_fts_clause)).sql
    ELSE <<"AND">>

\* the filters among the elements of v_where_fts
IsFilter(item) == item.clazz \notin {"And", "Or"}

\* SQLQuery.to_sql: the WHERE clause after the join, and query_args
where_to_sql_match_each(sql) ==
    LET attribute == Components_to_sql(sql.v_where, 1)
    IN [sql |-> attribute.sql
                \o [i \in 1..Len(sql.v_where_fts) |-> "MATCH ?"],
        query_args |-> attribute.query_args
                \o (IF Len(sql.v_where_fts) > 0
                       THEN <<Parameter("match", SelectSeq(sql.v_where_fts, IsFilter))>>
                       ELSE << >>)]
where_to_sql(sql) ==
    LET attribute == Components_to_sql(sql.v_where, 1)
    IN [sql |-> (IF Len(sql.v_where) > 0 THEN <<"AND (">> \o attribute.sql \o <<")">> ELSE << >>)
                \o (IF Len(sql.v_where_fts) > 0
                       THEN Bridge(sql) \o <<"documents_fts", "MATCH ?">>
                       ELSE << >>),
        query_args |-> (IF Len(sql.v_where) > 0 THEN attribute.query_args ELSE << >>)
                \o (IF Len(sql.v_where_fts) > 0
                       THEN <<Parameter("match", SelectSeq(sql.v_where_fts, IsFilter))>>
                       ELSE << >>)]

\* Query._query: the WHERE clauses of the statement of a Query and of the
\* Query objects of its unions, from the k-th segment on, and query_args
RECURSIVE query_sql(_, _)
query_sql(segments, k) ==
    IF k > Len(segments) THEN [sql |-> << >>, query_args |-> << >>]
    ELSE LET first == where_to_sql(segments[k])
             rest == query_sql(segments, k + 1)
         IN [sql |-> first.sql \o (IF k < Len(segments) THEN <<"UNION">> ELSE << >>) \o rest.sql,
             query_args |-> first.query_args \o rest.query_args]

\* the exception with that message
FieldError(text) == IF text = "" THEN "none" ELSE "FieldError"

\* PocketSearch.search(**kwargs)
SearchCall(kwargs) ==
    /\ LET r == get_arguments(kwargs, TRUE)
       IN /\ raised' = FieldError(r.message)
          /\ message' = r.message
          /\ IF r.message # ""
                THEN UNCHANGED <<queries, filters>>
                ELSE /\ Len(queries) + 1 \in QueryIds
                     /\ queries' = Append(queries, NewQuery("a"))
                     /\ filters' = where(NoFilters, r.arguments, "none", 1)
    /\ UNCHANGED <<stmt, dataVars, composeVars, escapeVars, indexVars>>

\* the lookup names of a keyword on a field of AllFields: a date part, a
\* comparison, or both in either order
DateParts == {LU_YEAR, LU_MONTH, LU_DAY, LU_HOUR, LU_MINUTE}
Comparisons == {LU_GTE, LU_GT, LU_LTE, LU_LT}
FieldLookups ==
    {<< >>} \cup {<<p>> : p \in DateParts} \cup {<<c>> : c \in Comparisons}
    \cup {<<p, c>> : p \in DateParts, c \in Comparisons}
    \cup {<<c, p>> : p \in DateParts, c \in Comparisons}

\* PocketSearch.search(**kwargs) with one keyword on an index of AllFields:
\* the field is one of the schema and every lookup name is one of LOOKUPS,
\* so get_arguments raises nothing
SearchField(keyword) ==
    /\ Len(queries) + 1 \in QueryIds
    /\ queries' = Append(queries, NewQuery("a"))
    /\ filters' = where(NoFilters, <<[field |-> keyword.field, lookups |-> <<Lookup(keyword)>>]>>,
                        "none", 1)
    /\ raised' = "none"
    /\ message' = ""
    /\ UNCHANGED <<stmt, dataVars, composeVars, escapeVars, indexVars>>

\* PocketSearch.assure_writeable on an instance whose self.writeable is
\* writeable: the exception it raises
assure_writeable_unguarded(writeable) == "none"
assure_writeable(writeable) == IF ~writeable THEN "IndexError" ELSE "none"

\* a statement of a writing method, with what it names
Written(via, kw, arg) ==
    [by |-> 0, via |-> via, aggregate |-> FALSE, sql |-> <<Clause(kw, arg)>>]

\* PocketSearch.insert(**kwargs) on an instance opened with writeable; the
\* engine may refuse the statement (DatabaseError)
Insert(writeable, kwargs) ==
    /\ LET r == get_arguments(kwargs, FALSE)
       IN IF assure_writeable(writeable) # "none"
             THEN raised' = assure_writeable(writeable) /\ message' = "" /\ stmt' = stmt
             ELSE IF r.message # ""
             THEN raised' = "FieldError" /\ message' = r.message /\ stmt' = stmt
             ELSE /\ raised' \in {"none", "DatabaseError"}
                  /\ message' = ""
                  /\ stmt' = [by |-> 0, via |-> "insert", aggregate |-> FALSE,
                              sql |-> <<Clause("insert into",
                                               [a \in 1..Len(r.arguments) |-> r.arguments[a].field])>>]
    /\ UNCHANGED <<queries, filters, dataVars, composeVars, escapeVars, indexVars>>

\* PocketSearch.update(**kwargs), with or without the keyword rowid; the
\* engine may refuse the statement (IntegrityError)
Update(writeable, rowid, kwargs) ==
    /\ LET r == get_arguments(kwargs, FALSE)
       IN IF assure_writeable(writeable) # "none"
             THEN raised' = assure_writeable(writeable) /\ message' = "" /\ stmt' = stmt
             ELSE IF ~rowid
             THEN raised' = "KeyError" /\ message' = "" /\ stmt' = stmt
             ELSE IF r.message # ""
             THEN raised' = "FieldError" /\ message' = r.message /\ stmt' = stmt
             ELSE /\ raised' \in {"none", "IntegrityError"}
                  /\ message' = ""
                  /\ stmt' = [by |-> 0, via |-> "update", aggregate |-> FALSE,
                              sql |-> <<Clause("update",
                                               [a \in 1..Len(r.arguments) |-> r.arguments[a].field])>>]
    /\ UNCHANGED <<queries, filters, dataVars, composeVars, escapeVars, indexVars>>

\* PocketSearch.delete(rowid)
Delete(writeable, rowid) ==
    /\ IF assure_writeable(writeable) # "none"
          THEN raised' = assure_writeable(writeable) /\ stmt' = stmt
          ELSE raised' = "none" /\ stmt' = Written("delete", "delete from", <<rowid>>)
    /\ message' = ""
    /\ UNCHANGED <<queries, filters, dataVars, composeVars, escapeVars, indexVars>>

\* PocketSearch.delete_all()
DeleteAll(writeable) ==
    /\ IF assure_writeable(writeable) # "none"
          THEN raised' = assure_writeable(writeable) /\ stmt' = stmt
          ELSE raised' = "none" /\ stmt' = Written("delete_all", "delete from", << >>)
    /\ message' = ""
    /\ UNCHANGED <<queries, filters, dataVars, composeVars, escapeVars, indexVars>>

\* PocketSearch.insert_or_update(**kwargs): schema.id_field of the
\* DefaultSchema is None, so a writeable instance raises DatabaseError
\* before get_arguments
InsertOrUpdate(writeable, kwargs) ==
    /\ raised' = IF assure_writeable(writeable) # "none" THEN assure_writeable(writeable)
                 ELSE "DatabaseError"
    /\ message' = ""
    /\ UNCHANGED <<queries, stmt, filters, dataVars, composeVars, escapeVars, indexVars>>

\* PocketSearch.build(index_reader), index_reader.read() giving elems: the
\* first insert_or_update raises
Build(writeable, elems) ==
    /\ raised' = IF assure_writeable(writeable) # "none" THEN assure_writeable(writeable)
                 ELSE IF Len(elems) > 0 THEN "DatabaseError"
                 ELSE "none"
    /\ message' = ""
    /\ UNCHANGED <<queries, stmt, filters, dataVars, composeVars, escapeVars, indexVars>>

\* PocketSearch.optimize(), seen by its caller: VACUUM on a new connection,
\* which the engine refuses while another connection writes
OptimizeCall(writeable) ==
    /\ IF assure_writeable(writeable) # "none"
          THEN raised' = assure_writeable(writeable) /\ stmt' = stmt
          ELSE /\ raised' \in {"none", "OperationalError"}
               /\ stmt' = Written("optimize", "VACUUM", << >>)
    /\ message' = ""
    /\ UNCHANGED <<queries, filters, dataVars, composeVars, escapeVars, indexVars>>

\* the arguments of highlight calls: field names
HighlightArgs == {<<"text">>, <<"text", "id">>, <<"text", "nofield">>}

\* Query.highlight: the loop over args from argument i on; get_field raises
\* SchemaError for a name that is no field, a field outside the full-text
\* index raises QueryError, and SQLQuery.highlight sets the function of
\* every Select of the field (a Count has no field: AttributeError)
RECURSIVE highlight(_, _, _)
highlight(query, args, i) ==
    IF i > Len(args) THEN [query |-> query, raised |-> "none"]
    ELSE IF ~InSeq(args[i], SchemaFields) THEN [query |-> query, raised |-> "SchemaError"]
    ELSE IF ~fts_enabled(args[i]) THEN [query |-> query, raised |-> "QueryError"]
    ELSE IF InSeq("COUNT(*)", query.v_select) THEN [query |-> query, raised |-> "AttributeError"]
    ELSE highlight([query EXCEPT
                      !.functions = @ \cup {n \in 1..Len(query.v_select) :
                                              query.v_select[n] = args[i]}],
                   args, i + 1)

\* Query.highlight(*args)
Highlight(q, args) ==
    /\ LET r == highlight(queries[q], args, 1)
       IN /\ queries' = [queries EXCEPT ![q] = r.query]
          /\ raised' = r.raised
    /\ UNCHANGED <<stmt, dataVars, composeVars, callVars, escapeVars, indexVars>>

(***************************************************************************)
(* Q objects.  A Q holds its QExpr objects by reference: the QExpr objects *)
(* are the elements of qexprs, and qs holds, for each Q, the positions of  *)
(* the QExpr objects of its q_exprs.                                       *)
(***************************************************************************)
\* the keyword arguments of Q(...)
QKwargs == {<< >>, <<Keyword("text", << >>)>>, <<Keyword("text", <<LU_BOOL, "nolookup">>)>>,
            <<Keyword("text", << >>), Keyword("id", << >>)>>}

\* one keyword on the full-text field, and one on an attribute; the two
\* together in either order
DomainKwargs == {<<Keyword("text", << >>)>>, <<Keyword("id", << >>)>>}
BothDomains == {<<Keyword("text", << >>), Keyword("id", << >>)>>,
                <<Keyword("id", << >>), Keyword("text", << >>)>>}

\* no Q.__or__ / Q.__and__ is running
NoLoop == [a |-> 0, b |-> 0, operator |-> "none", i |-> 0, passes |-> 0]

\* QExpr.__init__
QExpr(kwargs) == [kwargs |-> kwargs, operator |-> "none"]

\* Q.__init__: QExpr raises QueryError for more than one keyword
NewQ(kwargs) ==
    /\ IF Len(kwargs) > 1
          THEN /\ raised' = "QueryError"
               /\ UNCHANGED <<qexprs, qs, loop>>
          ELSE /\ Len(qs) < MaxQs
               /\ raised' = "none"
               /\ qexprs' = Append(qexprs, QExpr(kwargs))
               /\ qs' = Append(qs, <<Len(qexprs) + 1>>)
               /\ loop' = loop
    /\ UNCHANGED <<queries, stmt, dataVars, callVars, escapeVars, indexVars>>

\* Q.__or__ / Q.__and__ of the Q objects a and b: the loop over b.q_exprs
\* from the i-th on, on the QExpr objects exprs and the list q_exprs of a
RECURSIVE connect(_, _, _, _, _)
connect(exprs, q_exprs, operands, operator, i) ==
    IF i > Len(operands) THEN [qexprs |-> exprs, q_exprs |-> q_exprs]
    ELSE connect([exprs EXCEPT ![operands[i]].operator = operator],
                 Append(q_exprs, operands[i]), operands, operator, i + 1)

\* a | b and a & b for two different Q objects (the loop of a | a appends
\* to the list it runs over and does not end)
Connect(a, b, operator) ==
    /\ a # b
    /\ Len(qs[a]) + Len(qs[b]) <= MaxQExprs
    /\ LET r == connect(qexprs, qs[a], qs[b], operator, 1)
       IN /\ qexprs' = r.qexprs
          /\ qs' = [qs EXCEPT ![a] = r.q_exprs]
    /\ loop' = loop
    /\ raised' = "none"
    /\ UNCHANGED <<queries, stmt, dataVars, callVars, escapeVars, indexVars>>

Q_or(a, b) == Connect(a, b, "Or")
Q_and(a, b) == Connect(a, b, "And")

\* Q.__or__ / Q.__and__ step by step.  The for loop runs over obj.q_exprs
\* by position and ends when the position is past the end of the list as
\* it is then.  A list is followed up to MaxQExprs elements: a pass on a
\* longer list leaves the list and the position as they are, both being
\* one further in the code.  passes is the number of passes made, modulo 2.
Q_enter(a, b, operator) ==
    /\ loop = NoLoop
    /\ a # b => Len(qs[a]) + Len(qs[b]) <= MaxQExprs
    /\ loop' = [a |-> a, b |-> b, operator |-> operator, i |-> 1, passes |-> 0]
    /\ raised' = "none"
    /\ UNCHANGED <<qexprs, qs, queries, stmt, dataVars, callVars, escapeVars, indexVars>>

\* one pass of the loop body
Q_iterate ==
    /\ loop # NoLoop
    /\ loop.i <= Len(qs[loop.b])
    /\ qexprs' = [qexprs EXCEPT ![qs[loop.b][loop.i]].operator = loop.operator]
    /\ IF Len(qs[loop.a]) < MaxQExprs
          THEN /\ qs' = [qs EXCEPT ![loop.a] = Append(@, qs[loop.b][loop.i])]
               /\ loop' = [loop EXCEPT !.i = @ + 1, !.passes = 1 - @]
          ELSE /\ qs' = qs
               /\ loop' = [loop EXCEPT !.passes = 1 - @]
    /\ UNCHANGED <<queries, stmt, raised, dataVars, callVars, escapeVars, indexVars>>

\* the loop is over: return self
Q_return ==
    /\ loop # NoLoop
    /\ loop.i > Len(qs[loop.b])
    /\ loop' = NoLoop
    /\ UNCHANGED <<qexprs, qs, queries, stmt, raised, dataVars, callVars, escapeVars, indexVars>>

\* PocketSearch.search(q): get_arguments for the keywords of each QExpr of
\* q from the i-th on; the filters of the Query, or the exception
RECURSIVE q_arguments(_, _, _)
q_arguments(sql, q_exprs, i) ==
    IF i > Len(q_exprs) THEN [message |-> "", filters |-> sql]
    ELSE LET r == get_arguments(qexprs[q_exprs[i]].kwargs, TRUE)
         IN IF r.message # "" THEN [message |-> r.message, filters |-> NoFilters]
            ELSE q_arguments(where(sql, r.arguments, qexprs[q_exprs[i]].operator, 1),
                             q_exprs, i + 1)

SearchQ(x) ==
    /\ LET r == q_arguments(NoFilters, qs[x], 1)
       IN /\ raised' = FieldError(r.message)
          /\ message' = r.message
          /\ IF r.message # ""
                THEN UNCHANGED <<queries, filters>>
                ELSE /\ Len(queries) + 1 \in QueryIds
                     /\ queries' = Append(queries, NewQuery("a"))
                     /\ filters' = r.filters
    /\ UNCHANGED <<stmt, dataVars, composeVars, escapeVars, indexVars>>

(***************************************************************************)
(* Specifications                                                          *)
(***************************************************************************)
\* no lookup has been rendered and no Query exists
\* no Query, Q or filter built yet
QueryIdle ==
    /\ queries = << >>
    /\ stmt = NoStmt
    /\ raised = "none"
    /\ returned = NoReturn
    /\ qexprs = << >>
    /\ qs = << >>
    /\ loop = NoLoop
    /\ filters = NoFilters
    /\ message = ""

\* an index of MaxHits documents for each lookup
IndexFull == hits = [q \in QueryIds |-> MaxHits]

BuilderIdle ==
    /\ value = << >>
    /\ lookup = {}
    /\ operand = << >>
    /\ unicode61 = Unicode61_init(NoValue, NoValue, << >>)
    /\ tokenized = NotTokenized
    /\ QueryIdle
    /\ IndexFull

Init == PoolInit /\ BuilderIdle

Next == \E t \in Threads :
    \/ \E n \in Names, k \in {"plain", "reader"} : NewInstance(t, n, k)
    \/ GcLock(t)
    \/ GcMember(t)
    \/ GcCap(t)
    \/ GcSet(t)
    \/ GcLookup(t)
    \/ GcAcquire(t)
    \/ GcTimeout(t)
    \/ CreateTable(t)
    \/ CtCommit(t)
    \/ Close(t)
    \/ Optimize(t)
    \/ Vacuum(t)
    \/ Drop(t)

Spec == Init /\ [][Next]_vars

\* a waiting acquire() returns: with the token, or False at the timeout
FairSpec == Spec /\ \A t \in Threads : WF_vars(GcAcquire(t) \/ GcTimeout(t))

\* PocketWriter scopes of concurrent threads on one index
NextWriter == \E t \in Threads :
    \/ \E n \in Names : NewInstance(t, n, "scope")
    \/ GcLock(t)
    \/ GcMember(t)
    \/ GcCap(t)
    \/ GcSet(t)
    \/ GcLookup(t)
    \/ GcAcquire(t)
    \/ GcTimeout(t)
    \/ CreateTable(t)
    \/ CtCommit(t)
    \/ \E st \in Statements : Statement(t, st)
    \/ Commit(t)
    \/ ExitClean(t)
    \/ ExitRaise(t)

\* the pool tracks no other name
IndexIdle == PoolInit /\ others = 0

InitWriter == IndexIdle /\ BuilderIdle

SpecWriter == InitWriter /\ [][NextWriter]_vars

\* one full-text lookup: its value, its modifiers and the rendering
InitEscape ==
    /\ IndexIdle
    /\ value \in EscapeValues \cup {NoValue}
    /\ lookup \in LookupNames
    /\ operand = << >>
    /\ unicode61 = Unicode61_init(NoValue, NoValue, << >>)
    /\ tokenized = NotTokenized
    /\ QueryIdle
    /\ IndexFull

NextEscape == Render

SpecEscape == InitEscape /\ [][NextEscape]_vars

\* one Unicode61 object and one string it tokenizes
InitTokenizer ==
    /\ IndexIdle
    /\ value \in Inputs
    /\ lookup = {}
    /\ operand = << >>
    /\ unicode61 \in {Unicode61_init(c, t, s) : c \in Categories, t \in Tokenchars, s \in Separators}
    /\ tokenized = NotTokenized
    /\ QueryIdle
    /\ IndexFull

NextTokenizer == Tokenize

SpecTokenizer == InitTokenizer /\ [][NextTokenizer]_vars

\* the Query objects of one PocketSearch instance
\* composing Query objects: no statement is executed
NextCompose ==
    \/ \E term \in QueryTerms : Search(term)
    \/ \E q \in 1..Len(queries), r \in {NotAQuery} \cup 1..Len(queries) : Or(q, r)
    \/ \E q \in 1..Len(queries), args \in OrderArgs : OrderBy(q, args)
    \/ \E q \in 1..Len(queries), args \in ValueArgs : Values(q, args)

InitCompose == IndexIdle /\ BuilderIdle

SpecCompose == InitCompose /\ [][NextCompose]_vars

\* executing Query objects on an index with any number of matches for each
NextSlice ==
    \/ \E term \in QueryTerms : Search(term)
    \/ \E q, r \in 1..Len(queries) : Or(q, r)
    \/ \E q \in 1..Len(queries) : Count(q)
    \/ \E q \in 1..Len(queries), start \in Bounds, stop \in StopBounds : GetSlice(q, start, stop)
    \/ \E q \in 1..Len(queries), index \in Bounds : GetItem(q, index)

InitSlice ==
    /\ IndexIdle
    /\ value = << >>
    /\ lookup = {}
    /\ operand = << >>
    /\ unicode61 = Unicode61_init(NoValue, NoValue, << >>)
    /\ tokenized = NotTokenized
    /\ QueryIdle
    /\ hits \in [QueryIds -> HitCounts]

SpecSlice == InitSlice /\ [][NextSlice]_vars

\* search, insert and update calls with keywords
NextArguments ==
    \/ \E kwargs \in Kwargs : SearchCall(kwargs)
    \/ \E writeable \in BOOLEAN, kwargs \in Kwargs : Insert(writeable, kwargs)
    \/ \E writeable \in BOOLEAN, rowid \in BOOLEAN, kwargs \in Kwargs :
          Update(writeable, rowid, kwargs)
    \/ \E writeable \in BOOLEAN, rowid \in DocIds : Delete(writeable, rowid)
    \/ \E writeable \in BOOLEAN : DeleteAll(writeable)
    \/ \E writeable \in BOOLEAN, kwargs \in Kwargs : InsertOrUpdate(writeable, kwargs)
    \/ \E writeable \in BOOLEAN, elems \in {<< >>} \cup {<<kwargs>> : kwargs \in Kwargs} :
          Build(writeable, elems)
    \/ \E writeable \in BOOLEAN : OptimizeCall(writeable)

InitArguments == IndexIdle /\ BuilderIdle

SpecArguments == InitArguments /\ [][NextArguments]_vars

\* Q objects put together and searched for
NextQ ==
    \/ \E kwargs \in QKwargs : NewQ(kwargs)
    \/ \E a, b \in 1..Len(qs) : Q_or(a, b)
    \/ \E a, b \in 1..Len(qs) : Q_and(a, b)
    \/ \E x \in 1..Len(qs) : SearchQ(x)

InitQ == IndexIdle /\ BuilderIdle

SpecQ == InitQ /\ [][NextQ]_vars

\* Q objects over the two domains, and searches with them or with keywords
NextBridge ==
    \/ \E kwargs \in DomainKwargs : NewQ(kwargs)
    \/ \E a, b \in 1..Len(qs) : Q_or(a, b)
    \/ \E a, b \in 1..Len(qs) : Q_and(a, b)
    \/ \E x \in 1..Len(qs) : SearchQ(x)
    \/ \E kwargs \in DomainKwargs \cup BothDomains : SearchCall(kwargs)

InitBridge == IndexIdle /\ BuilderIdle

SpecBridge == InitBridge /\ [][NextBridge]_vars

\* Q objects combined with | and &, the loops step by step
NextCombine ==
    \/ \E kwargs \in DomainKwargs : loop = NoLoop /\ NewQ(kwargs)
    \/ \E a, b \in 1..Len(qs), operator \in {"Or", "And"} : Q_enter(a, b, operator)
    \/ Q_iterate
    \/ Q_return

InitCombine == IndexIdle /\ BuilderIdle

SpecCombine == InitCombine /\ [][NextCombine]_vars

\* the interpreter goes on with a loop it has entered
FairSpecCombine == SpecCombine /\ WF_vars(Q_iterate \/ Q_return)

\* the builder calls on Query objects: no statement is executed
NextBuilder ==
    \/ \E term \in QueryTerms : Search(term)
    \/ \E q \in 1..Len(queries), args \in OrderArgs : OrderBy(q, args)
    \/ \E q \in 1..Len(queries), args \in ValueArgs : Values(q, args)
    \/ \E q \in 1..Len(queries), args \in HighlightArgs : Highlight(q, args)

InitBuilder == IndexIdle /\ BuilderIdle

SpecBuilder == InitBuilder /\ [][NextBuilder]_vars

NextFields ==
    \E field \in DOMAIN AllFields, names \in FieldLookups : SearchField(Keyword(field, names))

InitFields == IndexIdle /\ BuilderIdle

SpecFields == InitFields /\ [][NextFields]_vars

NextQuery ==
    \/ \E term \in QueryTerms : Search(term)
    \/ \E q, r \in 1..Len(queries) : Or(q, r)
    \/ \E q \in 1..Len(queries) : OrderBy(q, <<[sign |-> "-", field |-> "text"]>>)
    \/ \E q \in 1..Len(queries) : Count(q)
    \/ \E q \in 1..Len(queries) : Iterate(q)
    \/ \E q \in 1..Len(queries), start \in SliceStarts, stop \in SliceStops : GetSlice(q, start, stop)
    \/ \E q \in 1..Len(queries), index \in Indexes : GetItem(q, index)

InitQuery == IndexIdle /\ BuilderIdle

SpecQuery == InitQuery /\ [][NextQuery]_vars

(***************************************************************************)
(* Claims                                                                  *)
(***************************************************************************)
\* a thread is inside a PocketWriter scope, between "begin" and the
\* commit / rollback of __exit__
InScope(t) == pc[t] \in {"body", "exit_exc"}

\* C1: for every index name at most one writer connection obtained from
\* get_connection(writeable=True) is unreleased at any time.
C1_MutualExclusion == \A n \in Names : held[n] <= 1

\* C2: a writer request that waits for the token always stops waiting; it
\* ends either with the token, which was available, or with a
\* ConnectionError naming the index while the token was unavailable, and
\* then no semaphore, slot or holder has changed.
C2_BoundedWait ==
    /\ \A t \in Threads : (pc[t] = "gc_acquire") ~> (pc[t] # "gc_acquire")
    /\ [][\A t \in Threads :
            (pc[t] = "gc_acquire" /\ pc'[t] # "gc_acquire") =>
               \/ /\ sems[waitSem[t]] > 0
                  /\ instHolds'[t]
                  /\ sems' = [sems EXCEPT ![waitSem[t]] = @ - 1]
               \/ /\ sems[waitSem[t]] = 0
                  /\ result'[t] = [err |-> "ConnectionError", name |-> name[t]]
                  /\ instHolds'[t] = instHolds[t]
                  /\ UNCHANGED <<sems, connections, held>>]_vars

\* C2 witness: a request has failed with the ConnectionError naming the
\* index while another thread holds the writer connection of the index.
C2_Witness ==
    \E t, u \in Threads :
        /\ t # u
        /\ result[t] = [err |-> "ConnectionError", name |-> name[u]]
        /\ pc[t] = "idle"
        /\ instHolds[u]

\* C3: every PocketWriter scope that has been left, by a clean exit or by
\* an exception, has released the writer token of its index.
C3_DeterministicRelease ==
    \A t \in Threads : scope[t].exit \in {"clean", "raised"} => scope[t].released

\* C4 as stated: a scope left by an exception has published none of its
\* statements, and a scope left cleanly has lost none.
C4_RollbackOnException ==
    \A t \in Threads :
        /\ scope[t].exit = "raised" => ~scope[t].published
        /\ scope[t].exit = "clean" => ~scope[t].lost

\* C4 amended: leaving a scope by an exception leaves the committed content
\* as it is (nothing issued after the body's last commit() becomes
\* visible); leaving it cleanly makes the committed content what the
\* session saw (all of its statements are visible).
C4_RollbackSinceLastCommit ==
    [][\A t \in Threads :
         (InScope(t) /\ pc'[t] = "idle") =>
            /\ scope'[t].exit = "raised" => db' = db
            /\ scope'[t].exit = "clean" => db'[name[t]] = Seen(t)]_vars

\* C4 witness: a scope whose body issued statements was left by an
\* exception and its open transaction was rolled back.
C4_Witness ==
    \E t \in Threads : scope[t].exit = "raised" /\ scope[t].lost /\ scope[t].released

\* C5: no two sessions of one index are between begin and commit/rollback
\* at the same time, and no statement of a session that obtained the
\* writer token fails (so that K sessions of M inserts leave K*M rows).
C5_NoLostWrites ==
    /\ \A n \in Names : Cardinality({t \in Threads : InScope(t) /\ name[t] = n}) <= 1
    /\ \A t \in Threads : pc[t] # "exit_exc"

\* C6: a read-only request gets its connection in one step in every state,
\* without entering the writer path, and neither it nor the release of a
\* reader connection changes a slot, a semaphore or dict_lock.
C6_ReadersUnrestricted ==
    [][\A t \in Threads :
         /\ (pc[t] = "idle" /\ pc'[t] # "idle" /\ kind'[t] = "reader") =>
               pc'[t] = "open" /\ conn'[t] /\ UNCHANGED <<poolVars, held>>
         /\ (kind[t] = "reader" /\ pc[t] = "open" /\ <<pc[t], closed[t]>>' # <<pc[t], closed[t]>>) =>
               UNCHANGED <<poolVars, held>>]_vars

\* C6 witness: a reader instance is open, and closed, while another thread
\* holds the writer connection of the same index.
C6_Witness ==
    \E t, u \in Threads :
        /\ kind[t] = "reader" /\ pc[t] = "open" /\ closed[t]
        /\ instHolds[u] /\ name[u] = name[t]
        /\ sems[connections[name[t]]] = 0

\* C7: the semaphore of an index never offers more than one writer token.
C7_AtMostOneToken ==
    \A n \in Names : connections[n] # NoSlot => sems[connections[n]] <= 1

\* C8: no registration takes the pool above POOL_MAX_DATABASES names, and
\* a request for an untracked name that finds the pool at the maximum
\* fails with ConnectionError.
C8_CapacityCeiling ==
    [][/\ PoolLen' # PoolLen => PoolLen' <= POOL_MAX_DATABASES
       /\ \A t \in Threads :
            (pc[t] = "gc_cap" /\ pc'[t] # "gc_cap" /\ PoolLen >= POOL_MAX_DATABASES) =>
               pc'[t] = "idle" /\ result'[t].err = "ConnectionError"]_vars

\* the character at position i of s is outside double quotes: it is no
\* quote and an even number of quotes comes before it
OutsideQuotes(s, i) ==
    /\ s[i] # Quote
    /\ Cardinality({j \in 1..(i - 1) : s[j] = Quote}) % 2 = 0

IsLetter(character) == UnicodeCategory(character)[1] = "L"

\* the word kw stands at position i of s as a whole bare word outside quotes
BareWordAt(s, i, kw) ==
    /\ i + Len(kw) - 1 <= Len(s)
    /\ \A k \in 1..Len(kw) : s[i + k - 1] = kw[k] /\ OutsideQuotes(s, i + k - 1)
    /\ i > 1 => ~IsLetter(s[i - 1])
    /\ i + Len(kw) <= Len(s) => ~IsLetter(s[i + Len(kw)])

HasBareWord(s, kw) == \E i \in 1..Len(s) : BareWordAt(s, i, kw)

\* C9: the operand rendered for a full-text lookup has no AND / OR as a
\* bare word outside double quotes unless allow_boolean was requested, no
\* bare NOT unless allow_negation, no "*" unless allow_prefix, no "^"
\* unless allow_initial_token and no parenthesis unless allow_boolean.
C9_DefaultDenyEscaping ==
    operand # << >> =>
        /\ LU_BOOL \notin lookup =>
              /\ ~HasBareWord(operand, AND)
              /\ ~HasBareWord(operand, OR)
              /\ ~InSeq("(", operand)
              /\ ~InSeq(")", operand)
        /\ LU_NEG \notin lookup => ~HasBareWord(operand, NOT)
        /\ LU_PREFIX \notin lookup => ~InSeq("*", operand)
        /\ LU_INITIAL_TOKEN \notin lookup => ~InSeq("^", operand)

\* the segment of a statement the clause at position i belongs to
SegmentOf(sql, i) == 1 + Cardinality({j \in 1..(i - 1) : sql[j].kw = "UNION"})
Segments(sql) == SegmentOf(sql, Len(sql) + 1)
Clauses(sql, k, kw) ==
    Cardinality({i \in 1..Len(sql) : sql[i].kw = kw /\ SegmentOf(sql, i) = k})

\* C10: every statement a Query with unions executes by iteration,
\* indexing or slicing (outside count mode) has ORDER BY and LIMIT exactly
\* once, on its last segment, and neither on any other segment.
C10_UnionOrderAndLimitOnLastSegment ==
    (stmt.via \in {"iter", "index", "slice"} /\ ~stmt.aggregate /\ Segments(stmt.sql) > 1) =>
        \A k \in 1..Segments(stmt.sql) :
            /\ Clauses(stmt.sql, k, "ORDER BY") = (IF k = Segments(stmt.sql) THEN 1 ELSE 0)
            /\ Clauses(stmt.sql, k, "LIMIT") = (IF k = Segments(stmt.sql) THEN 1 ELSE 0)

\* C11: executing the same Query twice with no call in between hands the
\* same statement with the same parameters to the engine both times, with
\* and without unions: the statement an execution has just handed over is
\* the statement the next execution of that Query renders.
C11_DeterministicRendering ==
    [][\A q \in 1..Len(queries) :
          Iterate(q) => executed(queried(queries', q), q, "iter").sql = stmt'.sql]_vars

\* C12 as stated: after a successful order_by call the ordering of the
\* Query is exactly the keys of that call, whatever was there before.
C12_OrderByReplaces ==
    [][\A q \in 1..Len(queries), args \in OrderArgs :
          OrderBy(q, args) /\ raised' = "none"
             => queries'[q].v_order_by = Keys(args)]_vars

\* C12 amended: the first order_by call that sets a key replaces the default
\* rank ordering; every later call appends its keys, in the order given,
\* after the keys the Query already has.
C12_OrderByReplacesDefaultThenAppends ==
    [][\A q \in 1..Len(queries), args \in OrderArgs :
          OrderBy(q, args) /\ raised' = "none"
             => queries'[q].v_order_by =
                   (IF queries[q].default_order_by_set THEN << >> ELSE queries[q].v_order_by)
                   \o Keys(args)]_vars

\* a second order_by("-text") has acted on a Query ordered by "-text"
C12_Witness ==
    \E q \in 1..Len(queries) :
       /\ raised = "none"
       /\ queries[q].v_order_by = <<[field |-> "text", sort_dir |-> "-"],
                                    [field |-> "text", sort_dir |-> "-"]>>

\* C13: after a successful values(f1..fn) call the projection of the Query
\* and of every Query of its unions is exactly f1..fn, in that order,
\* whatever values calls were made before.
C13_ValuesReplacesAndPropagates ==
    [][\A q \in 1..Len(queries), args \in ValueArgs :
          Values(q, args) /\ raised' = "none"
             => \A o \in Selects(queries', q) : queries'[o].v_select = args]_vars

RECURSIVE SegmentCounts(_, _)
SegmentCounts(q, k) ==
    IF k > Len(queries[q].unions) THEN hits[q]
    ELSE hits[queries[q].unions[k]] + SegmentCounts(q, k + 1)

\* C15: count() of a Query with unions returns the sum of the counts of its
\* segments, whatever these counts are; count() of a Query without unions
\* returns the number of documents it matches, whatever its limit and
\* offset are.
C15_CountIsSumOfSegments ==
    [][\A q \in 1..Len(queries) :
          Count(q) => returned'.count = SegmentCounts(q, 1)]_vars

\* a slice bound is missing, not parseable as an integer, or negative
BadBound(bound) == ~bound.parses \/ bound.v < 0

\* C16: q[a:b] raises QueryError when a or b is missing, not parseable as an
\* integer or negative, and q[i] raises QueryError when i is not parseable;
\* no statement is executed.
C16_SliceValidation ==
    [][\A q \in 1..Len(queries) :
          /\ \A start \in Bounds, stop \in StopBounds :
                GetSlice(q, start, stop) /\ (BadBound(start) \/ BadBound(stop))
                   => raised' = "QueryError" /\ stmt' = stmt
          /\ \A index \in Bounds :
                GetItem(q, index) /\ ~index.parses
                   => raised' = "QueryError" /\ stmt' = stmt]_vars

\* C17: for 0 <= a <= b, q[a:b] on a Query without unions returns the
\* documents at the positions a .. b-1 of its result, as far as they
\* exist, and q[i] returns the document at position i.
C17_SliceSemantics ==
    [][\A q \in 1..Len(queries) :
          queries[q].unions = << >> /\ queries[q].v_select # <<"COUNT(*)">>
             => /\ \A start \in Bounds, stop \in StopBounds :
                      /\ GetSlice(q, start, stop)
                      /\ start.parses /\ stop.parses
                      /\ 0 <= start.v /\ start.v <= stop.v
                      => returned'.rows = {p \in 0..(hits[q] - 1) : start.v <= p /\ p < stop.v}
                /\ \A index \in Bounds :
                      GetItem(q, index) /\ index.parses /\ 0 <= index.v /\ raised' = "none"
                      => returned'.rows = {index.v}]_vars

\* a keyword that names no field of the schema, or a lookup that is no key
\* of LOOKUPS
Unknown(keyword) ==
    \/ ~InSeq(keyword.field, SchemaFields)
    \/ \E n \in 1..Len(keyword.names) : keyword.names[n] \notin DOMAIN LOOKUPS
HasUnknown(kwargs) == \E k \in 1..Len(kwargs) : Unknown(kwargs[k])

Illegal(keyword) ==
    /\ InSeq(keyword.field, SchemaFields)
    /\ \E n \in 1..Len(keyword.names) :
          /\ keyword.names[n] \in DOMAIN LOOKUPS
          /\ LOOKUPS[keyword.names[n]] # {}
          /\ LOOKUPS[keyword.names[n]] \cap Classes(FieldClass[keyword.field]) = {}
HasIllegal(kwargs) == \E k \in 1..Len(kwargs) : Illegal(kwargs[k])

\* C19: a search with a lookup on a field whose class is not among the
\* classes LOOKUPS registers for the lookup raises FieldError, and no
\* filter and no Query is built.
C19_LookupFieldCompatibility ==
    [][\A kwargs \in Kwargs :
          HasIllegal(kwargs) /\ SearchCall(kwargs)
             => raised' = "FieldError" /\ filters' = filters /\ queries' = queries]_vars

\* C20: a | b and a & b leave in a the QExpr objects of a followed by the
\* ones of b, those of b tagged with the connective, and the first QExpr
\* of every Q carries no connective.
C20_QComposition ==
    [][/\ \A a, b \in 1..Len(qs), operator \in {"Or", "And"} :
             Connect(a, b, operator)
                => /\ qs'[a] = qs[a] \o qs[b]
                   /\ \A i \in 1..Len(qs[b]) : qexprs'[qs[b][i]].operator = operator
       /\ \A x \in 1..Len(qs') : qexprs'[qs'[x][1]].operator = "none"]_vars

\* C21: every QExpr of every Q carries the lookups of exactly one field:
\* Q(...) with more than one keyword raises QueryError and creates nothing,
\* and no Q(...) creates a QExpr without a field.
C21_OneFieldPerQExpr ==
    [][/\ \A kwargs \in QKwargs :
             NewQ(kwargs) /\ Len(kwargs) > 1
                => raised' = "QueryError" /\ qexprs' = qexprs /\ qs' = qs
       /\ \A n \in 1..Len(qexprs') : Len(qexprs'[n].kwargs) = 1]_vars

\* C22: a full-text search whose value is the empty string or None, or
\* tokenizes to no token, renders the empty phrase text:"" as operand.
C22_EmptyValueMatchesNothing ==
    /\ operand # << >>
    /\ IF value = NoValue THEN TRUE ELSE tokenize(Unicode61, value, << >>) = << >>
    => operand = FieldName \o <<":", Quote, Quote>>


\* the strftime format that extracts a date part
Extraction ==
    (LU_YEAR :> "%Y") @@ (LU_MONTH :> "%m") @@ (LU_DAY :> "%d")
    @@ (LU_HOUR :> "%H") @@ (LU_MINUTE :> "%M")

\* C23: the predicate of a filter on a Date or Datetime field whose lookup
\* names a date part is the integer cast of that part of the field,
\* compared with the operator of gte / gt / lte / lt (= without one);
\* without a date part it is the comparison of the field itself.
C23_DatePartFilters ==
    \A i \in 1..Len(filters.v_where) :
        LET item == filters.v_where[i]
            parts == {p \in DateParts : InSeq(p, item.names)}
            compared ==
                IF InSeq(LU_GTE, item.names) THEN ">="
                ELSE IF InSeq(LU_GT, item.names) THEN ">"
                ELSE IF InSeq(LU_LTE, item.names) THEN "<="
                ELSE IF InSeq(LU_LT, item.names) THEN "<"
                ELSE "="
        IN item.field \in DOMAIN AllFields /\ FieldClass[item.field] \in {"Date", "Datetime"}
           => Component_to_sql(item).sql =
                 IF parts = {} THEN <<item.field, compared, "?">>
                 ELSE <<"CAST(strftime(", Extraction[CHOOSE p \in parts : TRUE], item.field,
                        ") AS INTEGER)", compared, "?">>

\* C24: a character is a separator if it is one of separators; otherwise a
\* token character if it is one of tokenchars; otherwise a token character
\* exactly when its category, or its major class with *, is one of
\* categories.  Seen on the one-character strings: the string is the one
\* token, or there is no token.
C24_TokenizerPrecedence ==
    [][Tokenize /\ Len(value) = 1
          => LET character == value[1]
                 ch_category == UnicodeCategory(character)
                 categories == split(unicode61.categories, 1, << >>)
                 tokenchar ==
                     IF InSeq(character, unicode61.separators) THEN FALSE
                     ELSE IF unicode61.tokenchars # NoValue /\ InSeq(character, unicode61.tokenchars)
                        THEN TRUE
                     ELSE \/ InSeq(ch_category, categories)
                          \/ InSeq(<<ch_category[1], "*">>, categories)
             IN tokenized' = IF tokenchar THEN <<value>> ELSE << >>]_vars

\* C25: on an instance that is not writeable, insert, update, delete,
\* delete_all, insert_or_update, build and optimize raise IndexError and
\* execute no statement; the content of the index is unchanged.
C25_ReadOnlyProtection ==
    [][(\/ \E kwargs \in Kwargs : Insert(FALSE, kwargs)
        \/ \E rowid \in BOOLEAN, kwargs \in Kwargs : Update(FALSE, rowid, kwargs)
        \/ \E rowid \in DocIds : Delete(FALSE, rowid)
        \/ DeleteAll(FALSE)
        \/ \E kwargs \in Kwargs : InsertOrUpdate(FALSE, kwargs)
        \/ \E elems \in {<< >>} \cup {<<kwargs>> : kwargs \in Kwargs} : Build(FALSE, elems)
        \/ OptimizeCall(FALSE))
          => raised' = "IndexError" /\ stmt' = stmt /\ db' = db]_vars

\* a write on an instance that is not writeable was refused after a
\* statement of a writeable instance had been executed
C25_Witness == raised = "IndexError" /\ stmt.via = "delete_all"

\* the domain of the filters of a QExpr: full-text (fts), attribute
\* (attr), or none for a QExpr without keyword
Domain(n) ==
    IF qexprs[n].kwargs = << >> THEN "none"
    ELSE IF fts_enabled(qexprs[n].kwargs[1].field) THEN "fts" ELSE "attr"

\* the positions in the list of a Q of the nodes whose domain differs from
\* the domain of a node before them
Boundaries(q_exprs) ==
    {i \in 1..Len(q_exprs) :
        /\ Domain(q_exprs[i]) # "none"
        /\ \E j \in 1..(i - 1) : Domain(q_exprs[j]) \notin {"none", Domain(q_exprs[i])}}

\* the number of connectives among the elements of a clause
Connectives(clause) == Cardinality({i \in 1..Len(clause) : ~IsFilter(clause[i])})

\* C26: search(q) for a Q with full-text and attribute nodes sets the
\* bridging connective exactly once, to the connective of the first node
\* whose domain differs from the nodes before it, and appends the
\* connective of every other node, and only those, inside the two clauses;
\* search with keywords of both domains bridges with AND.
C26_BridgingConnective ==
    [][/\ \A x \in 1..Len(qs) :
             SearchQ(x) /\ raised' = "none" /\ Boundaries(qs[x]) # {}
                => LET first == CHOOSE i \in Boundaries(qs[x]) : \A j \in Boundaries(qs[x]) : i <= j
                       connected == {i \in 1..Len(qs[x]) :
                                        /\ Domain(qs[x][i]) # "none"
                                        /\ qexprs[qs[x][i]].operator # "none"}
                   IN /\ filters'.bridged = 1
                      /\ filters'.connect_fts_clause = qexprs[qs[x][first]].operator
                      /\ Bridge(filters') = <<IF qexprs[qs[x][first]].operator = "Or"
                                                 THEN "OR" ELSE "AND">>
                      /\ Connectives(filters'.v_where) + Connectives(filters'.v_where_fts)
                            = Cardinality(connected \ {first})
       /\ \A kwargs \in BothDomains :
             /\ SearchCall(kwargs)
             /\ raised' = "none"
             /\ Len(filters'.v_where) > 0
             /\ Len(filters'.v_where_fts) > 0
             => filters'.bridged = 0 /\ Bridge(filters') = <<"AND">>]_vars

\* a Query was built from a Q whose second node crosses the domains and
\* whose third node came after the bridge
C26_Witness ==
    /\ filters.bridged = 1
    /\ filters.connect_fts_clause = "Or"
    /\ Len(filters.v_where) + Len(filters.v_where_fts) = 4

\* C27: every a | b and a & b returns: a loop that was entered ends,
\* whether the operands are two Q objects, share QExpr objects, or are the
\* same object.
C27_CombiningTerminates == (loop # NoLoop) ~> (loop = NoLoop)

\* the positions of the placeholders of a statement, and the k-th of them
Placeholders(sql) == {i \in 1..Len(sql) : sql[i] \in {"?", "MATCH ?"}}
Placeholder(sql, k) ==
    CHOOSE i \in Placeholders(sql) : Cardinality({j \in Placeholders(sql) : j <= i}) = k

\* a statement and its parameters agree: as many placeholders as
\* parameters, the k-th parameter is the operand of MATCH where the k-th
\* placeholder is the one of MATCH and otherwise the value of the filter on
\* the field compared there, and two MATCH are in two segments
Agree(q) ==
    /\ Cardinality(Placeholders(q.sql)) = Len(q.query_args)
    /\ \A k \in 1..Cardinality(Placeholders(q.sql)) :
          LET i == Placeholder(q.sql, k)
              parameter == q.query_args[k]
          IN k <= Len(q.query_args)
             => IF q.sql[i] = "MATCH ?" THEN parameter.form = "match"
                ELSE /\ parameter.form # "match"
                     /\ parameter.of[1].field =
                           q.sql[IF q.sql[i - 2] = ") AS INTEGER)" THEN i - 3 ELSE i - 2]
    /\ \A i, j \in 1..Len(q.sql) :
          i < j /\ q.sql[i] = "MATCH ?" /\ q.sql[j] = "MATCH ?"
             => \E u \in (i + 1)..(j - 1) : q.sql[u] = "UNION"

\* C28: the statement of every Query a search builds, from keywords or from
\* a Q, alone or as a union with the Query built before it, has as many
\* placeholders as parameters, in the order of the filters they come from,
\* and at most one MATCH in each segment.
C28_PlaceholdersMatchParameters ==
    [][(\/ \E kwargs \in DomainKwargs \cup BothDomains : SearchCall(kwargs)
        \/ \E x \in 1..Len(qs) : SearchQ(x))
       /\ raised' = "none"
          => /\ Agree(query_sql(<<filters'>>, 1))
             /\ Agree(query_sql(<<filters, filters'>>, 1))
             /\ Agree(query_sql(<<filters', filters>>, 1))]_vars

\* a Query with two attribute filters and a full-text filter was built: it
\* has three parameters
C28_Witness ==
    /\ Len(SelectSeq(filters.v_where, IsFilter)) = 2
    /\ Len(SelectSeq(filters.v_where_fts, IsFilter)) = 1
    /\ Len(where_to_sql(filters).query_args) = 3

\* C29: an order_by, values or highlight call that raises leaves the
\* ordering, the projection and the highlight functions of the Query as
\* they were before the call.
C29_FailedCallsChangeNothing ==
    [][\A q \in 1..Len(queries) :
          (\/ \E args \in OrderArgs : OrderBy(q, args)
           \/ \E args \in ValueArgs : Values(q, args)
           \/ \E args \in HighlightArgs : Highlight(q, args))
          /\ raised' # "none"
             => /\ queries'[q].v_order_by = queries[q].v_order_by
                /\ queries'[q].v_select = queries[q].v_select
                /\ queries'[q].functions = queries[q].functions]_vars

\* C30: once close() has returned on an instance, the connection the
\* instance opened through the pool is closed: no closed instance holds a
\* connection that is still open.
C30_CloseClosesConnection == \A t \in Threads : closed[t] => ~conn[t]

====
